---- MODULE Spec2Model ----
(***************************************************************************)
(* Model of the IRS 990 schema concordance builder                         *)
(* (src/concordance_builder.py): the cross-version ConcordanceBuilder and  *)
(* the field_lookup.json writer.                                           *)
(*                                                                         *)
(* Strings are sequences of one-character strings, so that the string      *)
(* operations of the code (strip, split, join, lower, comparison, the      *)
(* version regular expression) are computed and not assumed.               *)
(***************************************************************************)
EXTENDS Integers, Sequences, FiniteSets, TLC

VARIABLES
    elements_by_xpath,  \* ConcordanceBuilder.elements_by_xpath: xpath -> list of SchemaElement
    versions,           \* ConcordanceBuilder.versions
    canonical_fields,   \* ConcordanceBuilder.canonical_fields
    merge_log,          \* history: the merges _merge_by_description performed, in order
    absorb_log,         \* history: the orphans _fuzzy_match_orphans looked at, in order
    lookup,             \* the object write_field_lookup_json dumps (NoLookup before)
    pc,                 \* "collecting" -> "built" -> "written"
    schema,             \* SchemaParser: the document at xsd_path and the global registries
    self_schedule,      \* SchemaParser.schedule
    stack,              \* the pending calls of _process_element, the next one first
    self_elements,      \* SchemaParser.elements
    walk_log,           \* history: for each record of self_elements, the declaration it came from
    visit_log,          \* history: the declarations _process_element worked on, in order
    wpc,                \* "idle"; "parse" -> "walking" -> "done"
    tree,               \* GlobalTypeCollector: the directory, path -> what lies at the path
    xsd_files,          \* the files collect_from_directory has still to hand over
    frames,             \* the calls of collect_from_file in progress, the innermost first
    visited_files,      \* GlobalTypeCollector._visited_files
    collected_types,    \* GlobalTypeCollector.complex_types: name -> the path it was read from
    parse_log,          \* history: the paths handed to etree.parse, in order
    cpc,                \* "idle"; "collect" -> "done"
    xpath_map,          \* resolve_xpath: the canonical field's xpaths argument
    filing_version,     \* resolve_xpath: the version argument
    resolved,           \* resolve_xpath: the value returned (NoPath for None)
    rpc,                \* "idle"; "call" -> "returned"
    max_retries,        \* run_agent: the max_retries argument
    validate,           \* run_agent: the validate argument
    xml_paths,          \* run_agent: the number of XML paths given
    agent_result,       \* run_agent: the AgentResult
    iteration,          \* run_agent: the loop variable
    agent_log,          \* history: the steps run_agent took, in order
    last_run,           \* history: the outcome of the latest execution and validation
    apc                 \* "idle"; "start" -> "generated" -> "execute" -> ... -> "returned"

\* The state of the builder and of the writer; the state of the parser.
builder_vars == <<elements_by_xpath, versions, canonical_fields, merge_log, absorb_log, lookup, pc>>
parser_vars == <<schema, self_schedule, stack, self_elements, walk_log, visit_log, wpc>>

collector_vars == <<tree, xsd_files, frames, visited_files, collected_types, parse_log, cpc>>
resolver_vars == <<xpath_map, filing_version, resolved, rpc>>
agent_vars == <<max_retries, validate, xml_paths, agent_result, iteration, agent_log, last_run, apc>>

\* The state of the three tools that run beside the builder and the parser.
tool_vars == <<collector_vars, resolver_vars, agent_vars>>

vars == <<elements_by_xpath, versions, canonical_fields, merge_log, absorb_log, lookup, pc,
          schema, self_schedule, stack, self_elements, walk_log, visit_log, wpc,
          tree, xsd_files, frames, visited_files, collected_types, parse_log, cpc,
          xpath_map, filing_version, resolved, rpc,
          max_retries, validate, xml_paths, agent_result, iteration, agent_log, last_run, apc>>

\* A tool that is not run in a specification rests in these values.
CollectorIdle ==
    /\ tree = << >>
    /\ xsd_files = << >>
    /\ frames = << >>
    /\ visited_files = { }
    /\ collected_types = << >>
    /\ parse_log = << >>
    /\ cpc = "idle"

ResolverIdle ==
    /\ xpath_map = << >>
    /\ filing_version = << >>
    /\ resolved = << >>
    /\ rpc = "idle"

AgentIdle ==
    /\ max_retries = 0
    /\ validate = FALSE
    /\ xml_paths = 0
    /\ agent_result = << >>
    /\ iteration = 0
    /\ agent_log = << >>
    /\ last_run = << >>
    /\ apc = "idle"

BuilderIdle ==
    /\ elements_by_xpath = << >>
    /\ versions = << >>
    /\ canonical_fields = << >>
    /\ merge_log = << >>
    /\ absorb_log = << >>
    /\ lookup = [ written |-> FALSE ]
    /\ pc = "collecting"

ParserIdle ==
    /\ schema = << >>
    /\ self_schedule = << >>
    /\ stack = << >>
    /\ self_elements = << >>
    /\ walk_log = << >>
    /\ visit_log = << >>
    /\ wpc = "idle"

-----------------------------------------------------------------------------
(* Characters and strings                                                  *)

\* The characters the model uses, in increasing code point order.
Chars ==
    << " ", "(", ")", ".", "/",
       "0", "1", "2", "3", "4", "5", "6", "7", "8", "9",
       "A", "B", "C", "D", "E", "F", "G", "H", "I", "J", "K", "L", "M",
       "N", "O", "P", "Q", "R", "S", "T", "U", "V", "W", "X", "Y", "Z",
       "_",
       "a", "b", "c", "d", "e", "f", "g", "h", "i", "j", "k", "l", "m",
       "n", "o", "p", "q", "r", "s", "t", "u", "v", "w", "x", "y", "z" >>

\* Rank of a character in code point order.
OrdOf == [c \in { Chars[i] : i \in 1..Len(Chars) } |->
            CHOOSE i \in 1..Len(Chars) : Chars[i] = c]

Ord(c) == OrdOf[c]

IsDigit(c) == Ord(c) >= Ord("0") /\ Ord(c) <= Ord("9")
IsUpper(c) == Ord(c) >= Ord("A") /\ Ord(c) <= Ord("Z")
IsLower(c) == Ord(c) >= Ord("a") /\ Ord(c) <= Ord("z")

\* str.lower() on one character.
LowerChar(c) == IF IsUpper(c) THEN Chars[Ord(c) - Ord("A") + Ord("a")] ELSE c

\* str.lower()
Lower(s) == [i \in 1..Len(s) |-> LowerChar(s[i])]

\* Python's < on str: lexicographic by code point, a proper prefix is smaller.
RECURSIVE StrLess(_, _)
StrLess(a, b) ==
    IF b = << >> THEN FALSE
    ELSE IF a = << >> THEN TRUE
    ELSE IF a[1] = b[1] THEN StrLess(Tail(a), Tail(b))
    ELSE Ord(a[1]) < Ord(b[1])

\* str.strip(c): drop the leading and the trailing occurrences of c.
RECURSIVE LStrip(_, _)
LStrip(s, c) == IF s # << >> /\ Head(s) = c THEN LStrip(Tail(s), c) ELSE s

RECURSIVE RStrip(_, _)
RStrip(s, c) ==
    IF s # << >> /\ s[Len(s)] = c THEN RStrip(SubSeq(s, 1, Len(s) - 1), c) ELSE s

Strip(s, c) == RStrip(LStrip(s, c), c)

\* str.strip() on the description texts: whitespace at both ends.
StripSpace(s) == Strip(s, " ")

\* str.split(c): the pieces between the occurrences of c (always at least one).
RECURSIVE SplitFrom(_, _, _)
SplitFrom(s, c, piece) ==
    IF s = << >> THEN << piece >>
    ELSE IF Head(s) = c THEN << piece >> \o SplitFrom(Tail(s), c, << >>)
    ELSE SplitFrom(Tail(s), c, Append(piece, Head(s)))

Split(s, c) == SplitFrom(s, c, << >>)

\* c.join(parts)
RECURSIVE Join(_, _)
Join(parts, c) ==
    IF parts = << >> THEN << >>
    ELSE IF Len(parts) = 1 THEN parts[1]
    ELSE parts[1] \o << c >> \o Join(Tail(parts), c)

\* re.sub(r'(?<=[a-z])(?=[A-Z])', ' ', s): a space between a lower-case
\* letter and the upper-case letter that follows it.
RECURSIVE Humanize(_)
Humanize(s) ==
    IF Len(s) < 2 THEN s
    ELSE IF IsLower(s[1]) /\ IsUpper(s[2])
         THEN << s[1], " " >> \o Humanize(Tail(s))
         ELSE << s[1] >> \o Humanize(Tail(s))

\* sorted(seq, key=...): Python's sort is stable. less[i][j] says that the key
\* of s[i] is smaller than the key of s[j]; an element goes after every
\* element with a smaller key and after the earlier elements with an equal key.
StableSort(s, less) ==
    LET n == Len(s)
        rank == [i \in 1..n |->
                    1 + Cardinality({ j \in 1..n :
                            \/ less[j][i]
                            \/ ~less[i][j] /\ j < i })]
    IN  [k \in 1..n |-> s[CHOOSE i \in 1..n : rank[i] = k]]

\* The set of the elements of a list.
Range(l) == { l[i] : i \in 1..Len(l) }

-----------------------------------------------------------------------------
(* Version identifiers                                                     *)

\* int(digits)
RECURSIVE ToInt(_)
ToInt(s) ==
    IF s = << >> THEN 0
    ELSE 10 * ToInt(SubSeq(s, 1, Len(s) - 1)) + (Ord(s[Len(s)]) - Ord("0"))

\* Length of the run of digits of s that starts at position i: (\d+)?
RECURSIVE DigitRun(_, _)
DigitRun(s, i) ==
    IF i <= Len(s) /\ IsDigit(s[i]) THEN 1 + DigitRun(s, i + 1) ELSE 0

\* _version_sort_key: re.match(r"(\d{4})v?(\d+)?\.?(\d+)?", version), the
\* groups as integers, (0, 0, 0) when the string does not start with 4 digits.
VersionSortKey(version) ==
    IF Len(version) < 4 \/ \E i \in 1..4 : ~IsDigit(version[i])
    THEN << 0, 0, 0 >>
    ELSE
        LET n  == Len(version)
            i2 == IF 5 <= n /\ version[5] = "v" THEN 6 ELSE 5
            r2 == DigitRun(version, i2)
            i3 == i2 + r2
            i4 == IF i3 <= n /\ version[i3] = "." THEN i3 + 1 ELSE i3
            r3 == DigitRun(version, i4)
        IN  << ToInt(SubSeq(version, 1, 4)),
               IF r2 = 0 THEN 0 ELSE ToInt(SubSeq(version, i2, i2 + r2 - 1)),
               IF r3 = 0 THEN 0 ELSE ToInt(SubSeq(version, i4, i4 + r3 - 1)) >>

\* Python's < on the key tuples.
KeyLess(a, b) ==
    \/ a[1] < b[1]
    \/ a[1] = b[1] /\ a[2] < b[2]
    \/ a[1] = b[1] /\ a[2] = b[2] /\ a[3] < b[3]

-----------------------------------------------------------------------------
(* SchemaElement records, as the schema walker emits them                  *)

Empty == << >>      \* the empty string ""

\* f"{parent_xpath}/{name}" from the schedule root down to the leaf.
RECURSIVE XPathOf(_)
XPathOf(segs) ==
    IF segs = << >> THEN << >> ELSE << "/" >> \o Head(segs) \o XPathOf(Tail(segs))

\* The record _process_element appends for the leaf at path segs of a document
\* whose schedule is segs[1]. xsd_type, annotation, min_occurs, max_occurs and
\* is_repeating are carried through to the output but are read by no branch of
\* the builder or of the lookup writer; they are left out.
SchemaElement(segs, doc, group, version) ==
    [ xpath         |-> XPathOf(segs),
      element_name  |-> segs[Len(segs)],
      documentation |-> doc,
      parent_group  |-> group,
      schedule      |-> segs[1],
      version       |-> version ]

\* Names used by the element universe.
F9   == << "F", "9" >>
F9Z  == << "F", "9", "Z" >>
Ein  == << "E", "i", "n" >>
Rev  == << "R", "e", "v" >>
Rev2 == << "R", "e", "v", "2" >>
Rv   == << "R", "v" >>
G1   == << "G", "1" >>
G2   == << "G", "2" >>
Amt  == << "A", "m", "t" >>

DocTr == << "T", "r" >>
DocTR == << "T", "R" >>
DocAm == << "A", "m" >>

V13  == << "2", "0", "1", "3", "v", "3", ".", "0" >>
V13b == << "2", "0", "1", "3", "v", "3" >>
V14  == << "2", "0", "1", "4", "v", "5", ".", "0" >>
V16  == << "2", "0", "1", "6", "v", "3", ".", "0" >>

\* The version directories, in the order main() parses them:
\* sorted(all_versions.keys(), key=_version_sort_key) over directory names
\* that discover_schemas lists in name order.
AllVersions == << V13b, V13, V14, V16 >>

\* The leaf records the walker can emit for each version directory.
Universe ==
    { SchemaElement(<< F9, Ein >>,          DocTr, Empty, V13),
      SchemaElement(<< F9, Rev >>,          DocTr, Empty, V13),
      SchemaElement(<< F9, G1, Amt >>,      DocAm, G1,    V13),
      SchemaElement(<< F9, G1, Amt >>,      Empty, Empty, V13),
      SchemaElement(<< F9, Rev >>,          Empty, Empty, V13b),
      SchemaElement(<< F9, Rv >>,           DocTR, Empty, V13b),
      SchemaElement(<< F9 >>,               Empty, Empty, V13b),
      SchemaElement(<< F9, Ein >>,          DocTr, Empty, V14),
      SchemaElement(<< F9Z, Ein >>,         DocTr, Empty, V14),
      SchemaElement(<< F9, Rev2 >>,         DocTr, Empty, V14),
      SchemaElement(<< F9, Rv >>,           DocTR, Empty, V14),
      SchemaElement(<< F9, G2, Amt >>,      DocAm, G2,    V14),
      SchemaElement(<< F9, Rev2 >>,         DocTr, Empty, V16),
      SchemaElement(<< F9, Rv >>,           DocTR, Empty, V16),
      SchemaElement(<< F9Z, Ein >>,         DocTr, Empty, V16),
      SchemaElement(<< F9, G2, G1, Amt >>,  Empty, Empty, V16) }


-----------------------------------------------------------------------------
(* The string functions on the strings of the universe. Each table holds   *)
(* the values of the function it names, computed once.                     *)

XPaths   == { e.xpath : e \in Universe }
Versions == Range(AllVersions)

\* _version_sort_key(v)
VersionKey == [v \in Versions |-> VersionSortKey(v)]

VersionLess(v, w) == KeyLess(VersionKey[v], VersionKey[w])

\* sorted(versions, key=_version_sort_key)
SortVersions(vs) ==
    StableSort(vs, [i \in 1..Len(vs) |-> [j \in 1..Len(vs) |-> VersionLess(vs[i], vs[j])]])

\* The order in which Python iterates over a set of version strings. It
\* follows the strings' hashes, which differ from run to run: hash_order is a
\* list of all version strings, and a set is listed in that order.
SetInOrder(S, hash_order) ==
    LET RECURSIVE pick(_)
        pick(i) == IF i > Len(hash_order) THEN << >>
                   ELSE (IF hash_order[i] \in S THEN << hash_order[i] >> ELSE << >>)
                        \o pick(i + 1)
    IN  pick(1)

\* The two extreme iteration orders of a set of versions: between them every
\* pair of versions is listed in both orders.
HashOrders == { AllVersions, << V16, V14, V13, V13b >> }

\* _xpath_to_canonical_name: the path segments after the first, joined by "_".
XPathToCanonicalName(xpath) ==
    LET parts == Split(Strip(xpath, "/"), "/")
    IN  IF Len(parts) > 1 THEN Join(Tail(parts), "_") ELSE Join(parts, "_")

CanonicalName == [x \in XPaths |-> XPathToCanonicalName(x)]

\* Variant of InferDescription: nothing is synthesized.
InferDescriptionNone(xpath, elem) == Empty

\* _infer_description: "<leaf> (within <context>)" from the last two segments.
InferDescription(xpath, elem) ==
    LET parts == Split(Strip(xpath, "/"), "/")
    IN  IF Len(parts) >= 2
        THEN Humanize(parts[Len(parts)])
             \o << " ", "(", "w", "i", "t", "h", "i", "n", " " >>
             \o Humanize(parts[Len(parts) - 1]) \o << ")" >>
        ELSE elem.element_name

InferredDescription ==
    [e \in { << u.xpath, u.element_name >> : u \in Universe } |->
        InferDescription(e[1], [element_name |-> e[2]])]

\* cf.canonical_name.split("_")[-1] if "_" in cf.canonical_name else cf.canonical_name
LeafOfName(name) ==
    IF \E i \in 1..Len(name) : name[i] = "_"
    THEN LET parts == Split(name, "_") IN parts[Len(parts)]
    ELSE name

CanonicalNames == { CanonicalName[x] : x \in XPaths }

NameLeaf == [n \in CanonicalNames |-> LeafOfName(n)]

\* text.strip().lower(), the description part of the by_desc keys.
NormalizeDescription(text) == Lower(StripSpace(text))

Descriptions ==
    { u.documentation : u \in Universe }
    \cup { InferredDescription[e] : e \in DOMAIN InferredDescription }

NormalizedDescription == [t \in Descriptions |-> NormalizeDescription(t)]

\* Python's < on the strings that build() sorts: the xpaths, and the
\* schedules and canonical names of the final sort.
SortedTexts == XPaths \cup CanonicalNames \cup { u.schedule : u \in Universe }

Less == [p \in SortedTexts \X SortedTexts |-> StrLess(p[1], p[2])]

\* sorted(S) for a set of strings.
RECURSIVE SortedStrings(_)
SortedStrings(S) ==
    IF S = {} THEN << >>
    ELSE LET m == CHOOSE x \in S : \A y \in S \ {x} : Less[<< x, y >>]
         IN  << m >> \o SortedStrings(S \ {m})

\* Total number of records over all versions of one run.
MaxElements == 4

\* The lists of at most n distinct records of S.
ElementLists(S, n) ==
    UNION { { l \in [1..k -> S] : \A i, j \in 1..k : i # j => l[i] # l[j] } :
            k \in 0..n }

-----------------------------------------------------------------------------
(* ConcordanceBuilder                                                      *)

NoLookup == [ written |-> FALSE ]

\* ConcordanceBuilder.__init__
Init ==
    /\ elements_by_xpath = << >>
    /\ versions = << >>
    /\ canonical_fields = << >>
    /\ merge_log = << >>
    /\ absorb_log = << >>
    /\ lookup = NoLookup
    /\ pc = "collecting"
    /\ schema = << >>
    /\ self_schedule = << >>
    /\ stack = << >>
    /\ self_elements = << >>
    /\ walk_log = << >>
    /\ visit_log = << >>
    /\ wpc = "idle"
    /\ CollectorIdle /\ ResolverIdle /\ AgentIdle

\* Number of records registered so far.
RECURSIVE TotalElements(_)
TotalElements(by_xpath) ==
    IF DOMAIN by_xpath = {} THEN 0
    ELSE LET x == CHOOSE x \in DOMAIN by_xpath : TRUE
         IN  Len(by_xpath[x])
             + TotalElements([y \in DOMAIN by_xpath \ {x} |-> by_xpath[y]])

\* for elem in elements: self.elements_by_xpath[elem.xpath].append(elem)
RECURSIVE AppendAll(_, _)
AppendAll(by_xpath, elements) ==
    IF elements = << >> THEN by_xpath
    ELSE LET e    == Head(elements)
             old  == IF e.xpath \in DOMAIN by_xpath THEN by_xpath[e.xpath] ELSE << >>
             next == [x \in DOMAIN by_xpath \cup {e.xpath} |->
                         IF x = e.xpath THEN Append(old, e) ELSE by_xpath[x]]
         IN  AppendAll(next, Tail(elements))

\* Position of a version directory in main()'s loop.
MainPos(v) == CHOOSE i \in 1..Len(AllVersions) : AllVersions[i] = v

\* One pass of main()'s loop over the version directories, which are visited
\* in the order of AllVersions: the records of the documents of version are
\* handed to add_version.
AddVersion(version, elements) ==
    /\ pc = "collecting"
    /\ \A i \in 1..Len(versions) : MainPos(versions[i]) < MainPos(version)
    /\ TotalElements(elements_by_xpath) + Len(elements) <= MaxElements
    /\ versions' = IF version \notin Range(versions)
                   THEN Append(versions, version) ELSE versions
    /\ elements_by_xpath' = AppendAll(elements_by_xpath, elements)
    /\ UNCHANGED <<canonical_fields, merge_log, absorb_log, lookup, pc>>
    /\ UNCHANGED <<parser_vars, tool_vars>>

\* sorted(elems, key=lambda e: _version_sort_key(e.version))
ElemLess(e, f) == VersionLess(e.version, f.version)
SortElems(elems) ==
    StableSort(elems, [i \in 1..Len(elems) |-> [j \in 1..Len(elems) |-> ElemLess(elems[i], elems[j])]])

\* The documentation of the most recent record that has one ("" if none).
RECURSIVE BestDoc(_)
BestDoc(elems_sorted) ==
    IF elems_sorted = << >> THEN Empty
    ELSE IF elems_sorted[Len(elems_sorted)].documentation # Empty
         THEN elems_sorted[Len(elems_sorted)].documentation
         ELSE BestDoc(SubSeq(elems_sorted, 1, Len(elems_sorted) - 1))

\* Variant of XPathsOf: only the most recent record's version is entered.
XPathsOfLatestOnly(elems) ==
    [v \in { SortElems(elems)[Len(elems)].version } |-> SortElems(elems)[Len(elems)].xpath]

\* {e.version: e.xpath for e in elems}: the value of a key is the xpath of the
\* last record with that version.
XPathsOf(elems) ==
    [v \in { elems[i].version : i \in 1..Len(elems) } |->
        LET last == CHOOSE i \in 1..Len(elems) :
                        /\ elems[i].version = v
                        /\ \A j \in (i + 1)..Len(elems) : elems[j].version # v
        IN  elems[last].xpath]

\* The key order of that dict: each version at its first record.
RECURSIVE KeyOrderOf(_, _)
KeyOrderOf(elems, keys) ==
    IF elems = << >> THEN keys
    ELSE KeyOrderOf(Tail(elems),
                    IF Head(elems).version \in Range(keys) THEN keys
                    ELSE Append(keys, Head(elems).version))

\* _make_canonical. A CanonicalField is a record; its dict xpaths_by_version
\* is the function xpaths_by_version with the keys' insertion order in
\* key_order. human_label, data_type, raw_xsd_type, is_repeating and
\* line_number are display metadata no branch reads; they are left out.
MakeCanonical(xpath, elems, hash_order) ==
    LET With(latest, doc) ==
          [ canonical_name    |-> CanonicalName[xpath],
            schedule          |-> latest.schedule,
            human_description |-> IF doc # Empty THEN doc
                                  ELSE InferredDescription[<< xpath, latest.element_name >>],
            xpaths_by_version |-> XPathsOf(elems),
            key_order         |-> KeyOrderOf(elems, << >>),
            parent_group      |-> latest.parent_group,
            versions_present  |->
              SortVersions(SetInOrder({ elems[i].version : i \in 1..Len(elems) },
                                      hash_order)) ]
        From(elems_sorted) == With(elems_sorted[Len(elems_sorted)], BestDoc(elems_sorted))
    IN  From(SortElems(elems))

\* Variant of SeenXPaths: build() forgets to add the paths to seen_xpaths.
SeenXPathsForgotten(by_xpath) == { }

\* seen_xpaths after step 2 of build(): the keys whose list is non-empty
\* (an empty list is skipped by "if not elems: continue").
SeenXPaths(by_xpath) == { x \in DOMAIN by_xpath : by_xpath[x] # << >> }

\* build(), steps 1 and 2: one canonical field per key of elements_by_xpath
\* that holds a non-empty list, in sorted key order. No key is in seen_xpaths
\* before its turn.
ExactFields(by_xpath, hash_order) ==
    LET Fields(xs) == [i \in 1..Len(xs) |-> MakeCanonical(xs[i], by_xpath[xs[i]], hash_order)]
    IN  Fields(SortedStrings(SeenXPaths(by_xpath)))

\* The key of the by_desc indexes: (schedule, parent_group, description
\* stripped and lower-cased).
DescKey(schedule, group, text) == << schedule, group, NormalizedDescription[text] >>

\* Variants of FieldDescKey: the enclosing group, or the schedule, is left out
\* of the key.
FieldDescKeyWithoutGroup(cf) == DescKey(cf.schedule, Empty, cf.human_description)
FieldDescKeyWithoutSchedule(cf) == DescKey(Empty, cf.parent_group, cf.human_description)

FieldDescKey(cf) == DescKey(cf.schedule, cf.parent_group, cf.human_description)

\* Variant of WithEntry: the absorbed path is entered under the primary's
\* first version.
WithEntryRelabelled(cf, v, xp) ==
    [cf EXCEPT
        !.xpaths_by_version =
            [w \in DOMAIN cf.xpaths_by_version |->
                IF w = cf.key_order[1] THEN xp ELSE cf.xpaths_by_version[w]]]

\* cf.xpaths_by_version[v] = xp for a new key v.
WithEntry(cf, v, xp) ==
    [cf EXCEPT
        !.xpaths_by_version =
            [w \in DOMAIN cf.xpaths_by_version \cup {v} |->
                IF w = v THEN xp ELSE cf.xpaths_by_version[w]],
        !.key_order = Append(cf.key_order, v)]

\* if v not in cf.versions_present: cf.versions_present.append(v)
WithVersion(cf, v) ==
    IF v \in Range(cf.versions_present) THEN cf
    ELSE [cf EXCEPT !.versions_present = Append(cf.versions_present, v)]

\* for e in elems: if e.version not in cf.xpaths_by_version: add the entry,
\* and append the version to versions_present if it is not there.
RECURSIVE AbsorbEntries(_, _)
AbsorbEntries(cf, elems) ==
    IF elems = << >> THEN cf
    ELSE AbsorbEntries(
            IF Head(elems).version \in DOMAIN cf.xpaths_by_version THEN cf
            ELSE WithVersion(WithEntry(cf, Head(elems).version, Head(elems).xpath),
                             Head(elems).version),
            Tail(elems))

\* Variant of SortPresent: the sort after an absorption is left out.
SortPresentSkipped(cf) == cf

\* cf.versions_present.sort(key=_version_sort_key)
SortPresent(cf) == [cf EXCEPT !.versions_present = SortVersions(cf.versions_present)]

\* The absorption of strategies 1 and 2: the entries, then the sort.
Absorb(cf, elems) == SortPresent(AbsorbEntries(cf, elems))

\* by_leaf[(schedule, leaf)] and by_desc[key], as sets of positions in the
\* field list. The code builds both indexes from the fields at entry and adds
\* each field it creates; the attributes the keys are made of are never
\* modified, so an index entry holds the current fields with that key.
ByLeaf(fields, schedule, leaf) ==
    { i \in 1..Len(fields) :
        fields[i].schedule = schedule /\ NameLeaf[fields[i].canonical_name] = leaf }

ByDesc(fields, key) ==
    { i \in 1..Len(fields) :
        fields[i].human_description # Empty /\ FieldDescKey(fields[i]) = key }

\* What one pass of the loop of _fuzzy_match_orphans decides: the strategy
\* that applies and the field it absorbs into.
OrphanDecision(fields, xpath, latest) ==
    LET Decide(cands, dcands) ==
          [ xpath           |-> xpath,
            leaf_candidates |-> Cardinality(cands),
            desc_candidates |-> Cardinality(dcands),
            strategy        |-> IF Cardinality(cands) = 1 THEN "leaf"
                                ELSE IF latest.documentation # Empty
                                        /\ Cardinality(dcands) = 1 THEN "description"
                                ELSE "new",
            into            |-> IF Cardinality(cands) = 1 THEN CHOOSE i \in cands : TRUE
                                ELSE IF latest.documentation # Empty
                                        /\ Cardinality(dcands) = 1
                                     THEN CHOOSE i \in dcands : TRUE
                                ELSE Len(fields) + 1 ]
    IN  Decide(ByLeaf(fields, latest.schedule, latest.element_name),
               ByDesc(fields, DescKey(latest.schedule, latest.parent_group,
                                      latest.documentation)))

\* One pass of the loop over the orphan xpath. st = [fields, log].
OrphanStep(st, xpath, by_xpath, hash_order) ==
    LET Apply(d) ==
          [ fields |-> IF d.strategy = "new"
                       THEN Append(st.fields, MakeCanonical(xpath, by_xpath[xpath], hash_order))
                       ELSE [st.fields EXCEPT
                                ![d.into] = Absorb(st.fields[d.into], by_xpath[xpath])],
            log    |-> Append(st.log, d) ]
        Latest(sorted) == sorted[Len(sorted)]
    IN  Apply(OrphanDecision(st.fields, xpath, Latest(SortElems(by_xpath[xpath]))))

RECURSIVE OrphanLoop(_, _, _, _)
OrphanLoop(st, orphans, by_xpath, hash_order) ==
    IF orphans = << >> THEN st
    ELSE OrphanLoop(OrphanStep(st, Head(orphans), by_xpath, hash_order),
                    Tail(orphans), by_xpath, hash_order)

\* orphan_xpaths = all_xpaths - seen_xpaths
OrphanXPaths(by_xpath, seen_xpaths) == DOMAIN by_xpath \ seen_xpaths

\* _fuzzy_match_orphans(seen_xpaths): [fields, log]
FuzzyMatchOrphans(fields, seen_xpaths, by_xpath, hash_order) ==
    OrphanLoop([ fields |-> fields, log |-> << >> ],
               SortedStrings(OrphanXPaths(by_xpath, seen_xpaths)),
               by_xpath, hash_order)

\* The keys of by_desc in _merge_by_description, in the order in which the
\* dict receives them (first appearance in canonical_fields).
RECURSIVE DescKeysFrom(_, _, _)
DescKeysFrom(fields, i, keys) ==
    IF i > Len(fields) THEN keys
    ELSE DescKeysFrom(fields, i + 1,
            IF fields[i].human_description # Empty
               /\ FieldDescKey(fields[i]) \notin Range(keys)
            THEN Append(keys, FieldDescKey(fields[i])) ELSE keys)

\* by_desc[key]: the positions of the fields with that key, in list order.
RECURSIVE DescGroup(_, _, _)
DescGroup(fields, key, i) ==
    IF i > Len(fields) THEN << >>
    ELSE (IF fields[i].human_description # Empty /\ FieldDescKey(fields[i]) = key
          THEN << i >> ELSE << >>) \o DescGroup(fields, key, i + 1)

\* The sort key of group_sorted: the key of the field's latest version.
LastVersionKey(cf) ==
    IF cf.versions_present # << >>
    THEN VersionKey[cf.versions_present[Len(cf.versions_present)]]
    ELSE << 0, 0, 0 >>

\* Variant of Overlap: the overlap check is left out, every pair is merged.
OverlapIgnored(primary, other) == {}

\* overlap = set(primary.versions_present) & set(other.versions_present)
Overlap(primary, other) ==
    Range(primary.versions_present) \cap Range(other.versions_present)

\* for v, xp in other.xpaths_by_version.items(): add the entry if v is not a
\* key of primary, append v if it is not in primary.versions_present.
RECURSIVE MergeEntries(_, _, _)
MergeEntries(primary, other, keys) ==
    IF keys = << >> THEN primary
    ELSE MergeEntries(
            WithVersion(
                IF Head(keys) \in DOMAIN primary.xpaths_by_version THEN primary
                ELSE WithEntry(primary, Head(keys), other.xpaths_by_version[Head(keys)]),
                Head(keys)),
            other, Tail(keys))

\* The merge of other into primary, with the sort that follows it.
MergeInto(primary, other) ==
    SortPresent(MergeEntries(primary, other, other.key_order))

\* The inner loop of _merge_by_description over group_sorted[:-1].
\* st = [fields, merged_away, merge_count, log]; p is the primary's position.
MergeOne(st, p, o) ==
    LET Merged(after) ==
          [ fields      |-> [st.fields EXCEPT ![p] = after],
            merged_away |-> st.merged_away \cup {o},
            merge_count |-> st.merge_count + 1,
            log         |-> Append(st.log,
                              [ primary_before |-> st.fields[p],
                                absorbed       |-> st.fields[o],
                                primary_after  |-> after ]) ]
    IN  IF Overlap(st.fields[p], st.fields[o]) = {}
        THEN Merged(MergeInto(st.fields[p], st.fields[o]))
        ELSE st

RECURSIVE MergeOthers(_, _, _)
MergeOthers(st, p, others) ==
    IF others = << >> THEN st
    ELSE MergeOthers(MergeOne(st, p, Head(others)), p, Tail(others))

\* Variant of GroupSorted: the group is left in list order.
GroupSortedUnsorted(fields, group) == group

\* group_sorted = sorted(group, key=the key of the latest version)
GroupSorted(fields, group) ==
    StableSort(group,
        [i \in 1..Len(group) |-> [j \in 1..Len(group) |->
            KeyLess(LastVersionKey(fields[group[i]]), LastVersionKey(fields[group[j]]))]])

\* One pass of the outer loop: the group of one description key.
MergeGroup(st, key) ==
    LET Run(sorted) ==
          IF Len(sorted) < 2 THEN st
          ELSE MergeOthers(st, sorted[Len(sorted)], SubSeq(sorted, 1, Len(sorted) - 1))
    IN  Run(GroupSorted(st.fields, DescGroup(st.fields, key, 1)))

RECURSIVE MergeGroups(_, _)
MergeGroups(st, keys) ==
    IF keys = << >> THEN st
    ELSE MergeGroups(MergeGroup(st, Head(keys)), Tail(keys))

\* Variant of Without: the absorbed fields stay in the list.
WithoutNoneRemoved(fields, away, i) == SubSeq(fields, i, Len(fields))

\* The list without the positions in away.
RECURSIVE Without(_, _, _)
Without(fields, away, i) ==
    IF i > Len(fields) THEN << >>
    ELSE (IF i \in away THEN << >> ELSE << fields[i] >>) \o Without(fields, away, i + 1)

\* _merge_by_description: [fields, log]. The identity id(cf) of a field is its
\* position in canonical_fields at entry.
MergeByDescription(fields) ==
    LET Result(st) ==
          [ fields |-> IF st.merge_count > 0
                       THEN Without(st.fields, st.merged_away, 1)
                       ELSE st.fields,
            log    |-> st.log ]
    IN  Result(MergeGroups([ fields |-> fields, merged_away |-> {},
                             merge_count |-> 0, log |-> << >> ],
                           DescKeysFrom(fields, 1, << >>)))

\* self.canonical_fields.sort(key=lambda f: (f.schedule, f.canonical_name))
FieldLess(f, g) ==
    \/ Less[<< f.schedule, g.schedule >>]
    \/ f.schedule = g.schedule /\ Less[<< f.canonical_name, g.canonical_name >>]

\* Variant of SortFields: the final sort is left out.
SortFieldsSkipped(fields) == fields

SortFields(fields) ==
    StableSort(fields, [i \in 1..Len(fields) |-> [j \in 1..Len(fields) |-> FieldLess(fields[i], fields[j])]])

\* The field list and the two histories that build() leaves behind.
BuildResult(fields, by_xpath, hash_order) ==
    LET Sorted(fuzzy, merged) ==
          [ fields     |-> SortFields(merged.fields),
            absorb_log |-> fuzzy.log,
            merge_log  |-> merged.log ]
        Merge(fuzzy) == Sorted(fuzzy, MergeByDescription(fuzzy.fields))
    IN  Merge(FuzzyMatchOrphans(fields \o ExactFields(by_xpath, hash_order),
                                SeenXPaths(by_xpath), by_xpath, hash_order))

\* build()
Build ==
    /\ pc = "collecting"
    /\ \E hash_order \in HashOrders :
        \E result \in { BuildResult(canonical_fields, elements_by_xpath, hash_order) } :
            /\ canonical_fields' = result.fields
            /\ absorb_log' = result.absorb_log
            /\ merge_log' = result.merge_log
    /\ versions' = SortVersions(versions)
    /\ pc' = "built"
    /\ UNCHANGED <<elements_by_xpath, lookup>>
    /\ UNCHANGED <<parser_vars, tool_vars>>

-----------------------------------------------------------------------------
(* OutputWriter                                                            *)

\* The value write_field_lookup_json stores under fields_dict[cf.canonical_name].
LookupEntry(cf) ==
    [ schedule      |-> cf.schedule,
      description   |-> cf.human_description,
      group         |-> cf.parent_group,
      xpaths        |-> cf.xpaths_by_version,
      version_start |-> IF cf.versions_present # << >>
                        THEN cf.versions_present[1] ELSE Empty,
      version_end   |-> IF cf.versions_present # << >>
                        THEN cf.versions_present[Len(cf.versions_present)] ELSE Empty ]

\* d[k] = v on a dict modelled as a function.
Put(d, k, v) == [x \in DOMAIN d \cup {k} |-> IF x = k THEN v ELSE d[x]]

\* fields_dict after the loop over self.fields: a later field with the same
\* canonical name replaces the entry of an earlier one.
RECURSIVE FieldsDict(_, _)
FieldsDict(fields, d) ==
    IF fields = << >> THEN d
    ELSE FieldsDict(Tail(fields), Put(d, Head(fields).canonical_name, LookupEntry(Head(fields))))

\* Variant of IndexField: only the first entry of the map is indexed.
IndexFieldFirstOnly(cf, keys, index) ==
    IF keys = << >> THEN index
    ELSE Put(index, cf.xpaths_by_version[Head(keys)], cf.canonical_name)

\* for v, xp in cf.xpaths_by_version.items(): xpath_index[xp] = cf.canonical_name
RECURSIVE IndexField(_, _, _)
IndexField(cf, keys, index) ==
    IF keys = << >> THEN index
    ELSE IndexField(cf, Tail(keys),
                    Put(index, cf.xpaths_by_version[Head(keys)], cf.canonical_name))

\* xpath_index after the loop over self.fields.
RECURSIVE XPathIndex(_, _)
XPathIndex(fields, index) ==
    IF fields = << >> THEN index
    ELSE XPathIndex(Tail(fields), IndexField(Head(fields), Head(fields).key_order, index))

\* The object write_field_lookup_json dumps.
LookupOf(fields, vs) ==
    [ written     |-> TRUE,
      metadata    |-> [ versions |-> SortVersions(vs), total_fields |-> Len(fields) ],
      fields      |-> FieldsDict(fields, << >>),
      xpath_index |-> XPathIndex(fields, << >>) ]

\* OutputWriter(builder.canonical_fields, builder.versions, ...) and its
\* write_field_lookup_json(), as main() runs them after build().
WriteFieldLookupJson ==
    /\ pc = "built"
    /\ lookup' = LookupOf(canonical_fields, versions)
    /\ pc' = "written"
    /\ UNCHANGED <<elements_by_xpath, versions, canonical_fields, merge_log, absorb_log>>
    /\ UNCHANGED <<parser_vars, tool_vars>>

Next ==
    \/ \E v \in Versions :
         \E elements \in ElementLists({ e \in Universe : e.version = v },
                                      MaxElements - TotalElements(elements_by_xpath)) :
            AddVersion(v, elements)
    \/ Build
    \/ WriteFieldLookupJson

Spec == Init /\ [][Next]_vars

-----------------------------------------------------------------------------
(* add_version called in any order                                         *)

\* Total number of records of a run that adds the versions in any order.
MaxPermuted == 3

\* add_version(version, elements) for a version not added yet, whatever was
\* added before: a caller other than main() is free in the order of its calls.
\* The versions of one run have pairwise distinct sort keys.
AddVersionInAnyOrder(version, elements) ==
    /\ pc = "collecting"
    /\ \A w \in Range(versions) : VersionKey[w] # VersionKey[version]
    /\ TotalElements(elements_by_xpath) + Len(elements) <= MaxPermuted
    /\ versions' = Append(versions, version)
    /\ elements_by_xpath' = AppendAll(elements_by_xpath, elements)
    /\ UNCHANGED <<canonical_fields, merge_log, absorb_log, lookup, pc>>
    /\ UNCHANGED <<parser_vars, tool_vars>>

PermNext ==
    \/ \E v \in Versions :
         \E elements \in ElementLists({ e \in Universe : e.version = v },
                                      MaxPermuted - TotalElements(elements_by_xpath)) :
            AddVersionInAnyOrder(v, elements)
    \/ Build

PermSpec == Init /\ [][PermNext]_vars

-----------------------------------------------------------------------------
(* SchemaParser: the walk of one schema document                           *)

\* An XML node of a schema document: its tag (local name), the attributes
\* the walker reads (name, ref, type, base, maxOccurs), the text of its
\* annotation/documentation, and its child nodes in document order.
Node(tag, name, ref, type, base, maxOccurs, doc, children) ==
    [ tag |-> tag, name |-> name, ref |-> ref, type |-> type, base |-> base,
      maxOccurs |-> maxOccurs, doc |-> doc, children |-> children ]

\* None, as find() returns it.
NoNode == Node("none", Empty, Empty, Empty, Empty, Empty, Empty, << >>)

\* node.find(tag): the first child with that tag.
Find(node, tag) ==
    IF \E i \in 1..Len(node.children) : node.children[i].tag = tag
    THEN node.children[CHOOSE i \in 1..Len(node.children) :
                          /\ node.children[i].tag = tag
                          /\ \A j \in 1..(i - 1) : node.children[j].tag # tag]
    ELSE NoNode

\* _strip_ns_prefix: type_str.split(":", 1)[1] when there is a ":".
StripNsPrefix(type_str) ==
    IF \E i \in 1..Len(type_str) : type_str[i] = ":"
    THEN SubSeq(type_str,
                1 + CHOOSE i \in 1..Len(type_str) :
                        /\ type_str[i] = ":"
                        /\ \A j \in 1..(i - 1) : type_str[j] # ":",
                Len(type_str))
    ELSE type_str

\* The named complexType and the named group nodes of the document
\* (root.iter finds them wherever they are; a schema declares them at the top).
RECURSIVE NamedNodes(_, _)
NamedNodes(nodes, tag) ==
    IF nodes = << >> THEN << >>
    ELSE (IF Head(nodes).tag = tag /\ Head(nodes).name # Empty
          THEN << Head(nodes) >> ELSE << >>)
         \o NamedNodes(Head(nodes).children, tag)
         \o NamedNodes(Tail(nodes), tag)

\* registry[name] = node for the nodes of a list, a later one replacing an
\* earlier one of the same name.
RECURSIVE Registered(_, _)
Registered(registry, nodes) ==
    IF nodes = << >> THEN registry
    ELSE Registered(Put(registry, Head(nodes).name, Head(nodes)), Tail(nodes))

\* complex_types and groups of _walk_schema: the global registry, then the
\* file-local definitions.
ComplexTypesOf(sch) == Registered(sch.global_complex_types, NamedNodes(sch.root, "complexType"))
GroupsOf(sch) == Registered(sch.global_groups, NamedNodes(sch.root, "group"))

\* The safety valves of the two recursions.
MaxElementDepth == 30
MaxCollectDepth == 15

\* Variant of ElementTooDeep: the valve closes one level later.
ElementTooDeepOffByOne(depth) == depth > MaxElementDepth + 1

\* if depth > 30: return
ElementTooDeep(depth) == depth > MaxElementDepth

\* if base: base = strip; if base in complex_types
FollowBase(base, complex_types) ==
    base # Empty /\ StripNsPrefix(base) \in DOMAIN complex_types

\* _collect_child_elements: the xs:element children of a node, through
\* sequence/all/choice containers, group references and extension bases.
RECURSIVE CollectChildElements(_, _, _, _)
RECURSIVE CollectChildren(_, _, _, _)
RECURSIVE CollectSubs(_, _, _, _)
CollectChildElements(node, groups, complex_types, depth) ==
    IF depth > MaxCollectDepth THEN << >>
    ELSE CollectChildren(node.children, groups, complex_types, depth)

\* for child in node
CollectChildren(children, groups, complex_types, depth) ==
    IF children = << >> THEN << >>
    ELSE LET child == Head(children)
             found ==
               IF child.tag = "element" THEN << child >>
               ELSE IF child.tag \in { "sequence", "all", "choice" }
               THEN CollectChildElements(child, groups, complex_types, depth + 1)
               ELSE IF child.tag = "group"
               THEN IF child.ref # Empty /\ StripNsPrefix(child.ref) \in DOMAIN groups
                    THEN CollectChildElements(groups[StripNsPrefix(child.ref)],
                                              groups, complex_types, depth + 1)
                    ELSE << >>
               ELSE IF child.tag = "complexContent"
               THEN CollectSubs(child.children, groups, complex_types, depth)
               ELSE << >>
         IN  found \o CollectChildren(Tail(children), groups, complex_types, depth)

\* for sub in child (a complexContent): the base type's elements, then the
\* elements the extension or restriction adds.
CollectSubs(subs, groups, complex_types, depth) ==
    IF subs = << >> THEN << >>
    ELSE LET sub == Head(subs)
             found ==
               IF sub.tag \in { "extension", "restriction" }
               THEN (IF FollowBase(sub.base, complex_types)
                     THEN CollectChildElements(complex_types[StripNsPrefix(sub.base)],
                                               groups, complex_types, depth + 1)
                     ELSE << >>)
                    \o CollectChildElements(sub, groups, complex_types, depth + 1)
               ELSE << >>
         IN  found \o CollectSubs(Tail(subs), groups, complex_types, depth)

-----------------------------------------------------------------------------
(* The schema documents the parser is run on                               *)

\* maxOccurs="unbounded"
Unbounded == << "u", "n", "b", "o", "u", "n", "d", "e", "d" >>

Element(name, type, maxOccurs, doc, children) ==
    Node("element", name, Empty, type, Empty, maxOccurs, doc, children)
ElementRef(ref) == Node("element", Empty, ref, Empty, Empty, Empty, Empty, << >>)
ComplexType(name, children) ==
    Node("complexType", name, Empty, Empty, Empty, Empty, Empty, children)
XsSequence(children) == Node("sequence", Empty, Empty, Empty, Empty, Empty, Empty, children)
XsChoice(children) == Node("choice", Empty, Empty, Empty, Empty, Empty, Empty, children)
XsGroup(name, children) == Node("group", name, Empty, Empty, Empty, Empty, Empty, children)
GroupRef(ref) == Node("group", Empty, ref, Empty, Empty, Empty, Empty, << >>)
ComplexContent(children) ==
    Node("complexContent", Empty, Empty, Empty, Empty, Empty, Empty, children)
SimpleContent(children) ==
    Node("simpleContent", Empty, Empty, Empty, Empty, Empty, Empty, children)
Extension(base, children) == Node("extension", Empty, Empty, Empty, base, Empty, Empty, children)
Restriction(base, children) ==
    Node("restriction", Empty, Empty, Empty, base, Empty, Empty, children)

\* An element with an inline complex type holding a sequence.
Branch(name, maxOccurs, doc, children) ==
    Element(name, Empty, maxOccurs, doc, << ComplexType(Empty, << XsSequence(children) >>) >>)

\* An element with an inline complex type that extends base.
Extending(name, maxOccurs, base, children) ==
    Element(name, Empty, maxOccurs, Empty,
            << ComplexType(Empty, << ComplexContent(<< Extension(base, children) >>) >>) >>)

\* "ef:<name>": a reference with a namespace prefix.
Prefixed(name) == << "e", "f", ":" >> \o name

XsString == << "x", "s", ":", "s", "t", "r", "i", "n", "g" >>
Leaf(name, maxOccurs) == Element(name, XsString, maxOccurs, Empty, << >>)

\* A document as the parser sees it: whether the file is well-formed XML, the
\* children of its root, the registries of the collector, the schedule
\* guessed from the file name, and the version. kind, n and shape describe
\* how the document was made.
Schema(kind, n, shape, root, types, grps) ==
    [ kind |-> kind, n |-> n, shape |-> shape, well_formed |-> TRUE,
      root |-> root,
      global_complex_types |-> Registered(<< >>, types),
      global_groups |-> Registered(<< >>, grps),
      stem |-> F9Z, version |-> V14 ]

MaxOccursValues == { Empty, << "1" >>, << "5" >>, Unbounded }

NmA == << "a" >>
NmB == << "b" >>
NmC == << "C" >>
NmD == << "D" >>
NmE == << "E" >>
NmR == << "R" >>
NmX == << "X" >>
NmY == << "y" >>
NmZ == << "z" >>
GT  == << "G", "T" >>
ST  == << "S", "T" >>
Missing == << "M", "i", "s", "s", "i", "n", "g" >>

\* The content of the container R: a leaf, and a container C that holds a
\* leaf and a container D with a leaf.
ContainerBody(m2) ==
    << Leaf(NmB, Empty),
       Branch(NmC, m2, Empty,
              << Leaf(<< "c" >>, Empty),
                 Branch(NmD, Empty, Empty, << Leaf(<< "d" >>, Empty) >>) >>) >>

\* A document with a leaf a (maxOccurs m3) and a container R (maxOccurs m1)
\* whose content is inline, a named type of the file, or an inline extension
\* of a named type of the registry.
RepeatingSchema(m1, m2, m3, shape) ==
    IF shape = "inline"
    THEN Schema("repeating", 0, shape,
                << Branch(F9, Empty, Empty,
                          << Leaf(NmA, m3), Branch(NmR, m1, DocTr, ContainerBody(m2)) >>) >>,
                << >>, << >>)
    ELSE IF shape = "named"
    THEN Schema("repeating", 0, shape,
                << Branch(F9, Empty, Empty,
                          << Leaf(NmA, m3),
                             Element(NmR, Prefixed(GT), m1, DocTr, << >>) >>),
                   ComplexType(GT, << XsSequence(ContainerBody(m2)) >>) >>,
                << >>, << >>)
    ELSE Schema("repeating", 0, shape,
                << Branch(F9, Empty, Empty,
                          << Leaf(NmA, m3),
                             Extending(NmR, m1, Prefixed(GT),
                                       << XsSequence(<< Leaf(NmX, Empty) >>) >>) >>) >>,
                << ComplexType(GT, << XsChoice(ContainerBody(m2)) >>) >>, << >>)

RepeatingSchemas ==
    { RepeatingSchema(m1, m2, m3, shape) :
        m1 \in MaxOccursValues, m2 \in MaxOccursValues, m3 \in MaxOccursValues,
        shape \in { "inline", "named", "extension" } }

\* The declarations of E in the documents about references.
ReferenceCase(shape, m) ==
    IF shape = "type missing" THEN Element(NmE, Prefixed(Missing), m, DocAm, << >>)
    ELSE IF shape = "base missing"
    THEN Extending(NmE, m, Prefixed(Missing), << XsSequence(<< Leaf(NmY, Empty) >>) >>)
    ELSE IF shape = "base missing, no children" THEN Extending(NmE, m, Prefixed(Missing), << >>)
    ELSE IF shape = "group missing" THEN Branch(NmE, m, Empty, << GroupRef(Prefixed(Missing)) >>)
    ELSE IF shape = "group" THEN Branch(NmE, m, Empty, << GroupRef(Prefixed(G1)) >>)
    ELSE IF shape = "named simpleContent" THEN Element(NmE, Prefixed(ST), m, Empty, << >>)
    ELSE IF shape = "simpleContent"
    THEN Element(NmE, Empty, m, << " ", "A", "m", " " >>,
                 << ComplexType(Empty, << SimpleContent(<< Extension(XsString, << >>) >>) >>) >>)
    ELSE IF shape = "restriction"
    THEN Element(NmE, Empty, m, Empty,
                 << ComplexType(Empty,
                        << ComplexContent(<< Restriction(Prefixed(GT), << >>) >>) >>) >>)
    ELSE IF shape = "ref" THEN ElementRef(Prefixed(NmE))
    ELSE Node("element", Empty, Empty, XsString, Empty, m, Empty, << >>)

ReferenceShapes ==
    { "type missing", "base missing", "base missing, no children", "group missing",
      "group", "named simpleContent", "simpleContent", "restriction", "ref", "no name" }

\* A document with the declaration E of one of these shapes and a leaf z.
ReferenceSchema(shape, m) ==
    Schema("reference", 0, shape,
           << Branch(F9, Empty, Empty, << ReferenceCase(shape, m), Leaf(NmZ, Empty) >>) >>,
           << ComplexType(ST, << SimpleContent(<< Extension(XsString, << >>) >>) >>),
              ComplexType(GT, << XsSequence(<< Leaf(NmB, Empty) >>) >>) >>,
           << XsGroup(G1, << XsSequence(<< Leaf(<< "g" >>, Empty) >>) >>) >>)

ReferenceSchemas ==
    { ReferenceSchema(shape, m) : shape \in ReferenceShapes, m \in { Empty, Unbounded } }

\* The longest inheritance chain of the chain documents.
MaxChain == 16

Letter(k) == Chars[Ord("a") + k - 1]
TName(k) == << "T", Letter(k) >>
CName(k) == << "c", Letter(k) >>

\* T_1 declares c_1; T_k extends T_(k-1) and declares c_k.
ChainType(k) ==
    IF k = 1 THEN ComplexType(TName(1), << XsSequence(<< Leaf(CName(1), Empty) >>) >>)
    ELSE ComplexType(TName(k),
            << ComplexContent(<< Extension(Prefixed(TName(k - 1)),
                                           << XsSequence(<< Leaf(CName(k), Empty) >>) >>) >>) >>)

\* A document whose element E has the type T_n, or extends T_n inline by a
\* leaf x; the chain is in the registry of the collector.
ChainSchema(n, shape) ==
    Schema("chain", n, shape,
           << Branch(F9, Empty, Empty,
                     << IF shape = "named" THEN Element(NmE, Prefixed(TName(n)), Empty, Empty, << >>)
                        ELSE Extending(NmE, Empty, Prefixed(TName(n)),
                                       << XsSequence(<< Leaf(NmX, Empty) >>) >>) >>) >>,
           [k \in 1..n |-> ChainType(k)], << >>)

ChainSchemas == { ChainSchema(n, shape) : n \in 1..MaxChain, shape \in { "named", "extension" } }

\* Documents over registries with cycles: a type with an element of its own
\* type, a group that refers to itself, a type that extends itself.
CyclicSchemas ==
    { Schema("cyclic", 0, "type",
             << Leaf(F9, Empty), Element(NmX, GT, Empty, Empty, << >>) >>,
             << ComplexType(GT, << XsSequence(<< Leaf(NmA, Empty),
                                                Element(<< "r" >>, GT, Empty, Empty, << >>) >>) >>) >>,
             << >>),
      Schema("cyclic", 0, "group",
             << Branch(F9, Empty, Empty, << GroupRef(G1) >>) >>,
             << >>,
             << XsGroup(G1, << XsSequence(<< Leaf(<< "g" >>, Empty), GroupRef(G1) >>) >>) >>),
      Schema("cyclic", 0, "extension",
             << Element(F9, GT, Empty, Empty, << >>) >>,
             << ComplexType(GT, << ComplexContent(<< Extension(GT,
                                        << XsSequence(<< Leaf(NmA, Empty) >>) >>) >>) >>) >>,
             << >>) }

\* A file that is not well-formed XML, and a schema without any element.
OtherSchemas ==
    { [ Schema("malformed", 0, "", << >>, << >>, << >>) EXCEPT !.well_formed = FALSE ],
      Schema("empty", 0, "", << ComplexType(GT, << >>) >>, << >>, << >>) }

Schemas == RepeatingSchemas \cup ReferenceSchemas \cup ChainSchemas \cup CyclicSchemas
           \cup OtherSchemas

\* The nodes of a list of trees, at any depth.
RECURSIVE AllNodes(_)
AllNodes(nodes) ==
    IF nodes = << >> THEN { }
    ELSE { Head(nodes) } \cup AllNodes(Head(nodes).children) \cup AllNodes(Tail(nodes))

\* The complexType and extension nodes of a document and its registries: the
\* nodes _get_direct_child_elements is called with.
ComplexNodes(sch) ==
    { node \in AllNodes(sch.root)
                \cup UNION { AllNodes(<< ComplexTypesOf(sch)[t] >>) : t \in DOMAIN ComplexTypesOf(sch) }
                \cup UNION { AllNodes(<< GroupsOf(sch)[g] >>) : g \in DOMAIN GroupsOf(sch) } :
        node.tag \in { "complexType", "extension" } }

\* The result list of _get_direct_child_elements for every node and registry
\* of the documents, computed once: results = [] and the collection from
\* depth 0.
CollectedChildElements ==
    [ key \in UNION { { << node, GroupsOf(sch), ComplexTypesOf(sch) >> : node \in ComplexNodes(sch) } :
                      sch \in Schemas } |->
        CollectChildElements(key[1], key[2], key[3], 0) ]

-----------------------------------------------------------------------------
(* SchemaParser: one call of _process_element                              *)

\* _get_direct_child_elements
GetDirectChildElements(complex_node, groups, complex_types) ==
    CollectedChildElements[<< complex_node, groups, complex_types >>]

\* _resolve_extension: the base of complexContent/extension, without its
\* namespace prefix, or "".
ResolveExtension(complex_node) ==
    LET cc  == Find(complex_node, "complexContent")
        ext == Find(cc, "extension")
    IN  IF cc # NoNode /\ ext # NoNode THEN StripNsPrefix(ext.base) ELSE Empty

\* _get_documentation: the stripped text of annotation/documentation, or "".
GetDocumentation(elem) == StripSpace(elem.doc)

\* name = elem.get("name", ""), else the ref without its prefix.
ElementName(elem) ==
    IF elem.name # Empty THEN elem.name
    ELSE IF elem.ref # Empty THEN StripNsPrefix(elem.ref)
    ELSE Empty

\* The xpath of an element: under the schedule root for a top-level element.
ElementXPath(name, parent_xpath, schedule) ==
    IF parent_xpath = Empty
    THEN IF name # schedule THEN << "/" >> \o schedule \o << "/" >> \o name
         ELSE << "/" >> \o name
    ELSE parent_xpath \o << "/" >> \o name

\* elem_is_repeating = is_repeating or max_occurs == "unbounded"
ElemIsRepeating(is_repeating, max_occurs) == is_repeating \/ max_occurs = Unbounded

\* The type string of the simpleContent branch: the extension's base, else
\* the restriction's, without prefix; else the element's own type attribute.
SimpleContentType(simple_content, xsd_type_raw) ==
    LET sc_ext      == Find(simple_content, "extension")
        sc_restrict == Find(simple_content, "restriction")
        of_ext      == IF sc_ext # NoNode THEN StripNsPrefix(sc_ext.base) ELSE Empty
        base_type   == IF sc_restrict # NoNode /\ of_ext = Empty
                       THEN StripNsPrefix(sc_restrict.base) ELSE of_ext
    IN  IF base_type # Empty THEN base_type ELSE xsd_type_raw

\* The record the parser appends. min_occurs is copied from the attribute and
\* read by nothing; it is left out.
ParsedElement(xpath, name, xsd_type, doc, parent_group, is_repeating, max_occurs, schedule, version) ==
    [ xpath         |-> xpath,
      element_name  |-> name,
      xsd_type      |-> xsd_type,
      documentation |-> doc,
      parent_group  |-> parent_group,
      is_repeating  |-> is_repeating,
      max_occurs    |-> max_occurs,
      schedule      |-> schedule,
      version       |-> version ]

GroupType == << "(", "g", "r", "o", "u", "p", ")" >>

\* maxOccurs permits more than one instance: "unbounded" or a number above 1.
PermitsMany(max_occurs) ==
    \/ max_occurs = Unbounded
    \/ /\ max_occurs # Empty
       /\ \A i \in 1..Len(max_occurs) : IsDigit(max_occurs[i])
       /\ ToInt(max_occurs) > 1

\* A call _process_element(elem, parent_xpath, parent_group, is_repeating,
\* complex_types, groups, depth). anchor and under_many are history: the name
\* of the nearest enclosing element whose own maxOccurs permits more than one
\* instance, and whether there is one.
Call(elem, parent_xpath, parent_group, is_repeating, depth, anchor, under_many) ==
    [ elem |-> elem, parent_xpath |-> parent_xpath, parent_group |-> parent_group,
      is_repeating |-> is_repeating, depth |-> depth,
      anchor |-> anchor, under_many |-> under_many ]

\* The calls for the children of a branch element.
ChildCalls(children, call, xpath, group_name, elem_is_repeating) ==
    [i \in 1..Len(children) |->
        Call(children[i], xpath, group_name, elem_is_repeating, call.depth + 1,
             IF PermitsMany(call.elem.maxOccurs) THEN ElementName(call.elem) ELSE call.anchor,
             call.under_many \/ PermitsMany(call.elem.maxOccurs))]

\* The body of one call of _process_element: the records it appends and the
\* calls it makes, in order. branch names the case the code took.
ProcessElement(call, schedule, version, groups, complex_types) ==
    LET elem       == call.elem
        name       == ElementName(elem)
        xpath      == ElementXPath(name, call.parent_xpath, schedule)
        xsd_type   == IF elem.type # Empty THEN StripNsPrefix(elem.type) ELSE Empty
        repeating  == ElemIsRepeating(call.is_repeating, elem.maxOccurs)
        doc_text   == GetDocumentation(elem)
        inline     == Find(elem, "complexType")
        simple     == Find(inline, "simpleContent")
        ext_type   == ResolveExtension(inline)
        group_name == IF repeating THEN name ELSE call.parent_group
        LeafRecord(type) == << ParsedElement(xpath, name, type, doc_text, call.parent_group,
                                       call.is_repeating, elem.maxOccurs, schedule, version) >>
        GroupRecord == IF repeating /\ name # Empty
                      THEN << ParsedElement(xpath, name, GroupType, doc_text,
                                            call.parent_group, TRUE, elem.maxOccurs,
                                            schedule, version) >>
                      ELSE << >>
        Calls(children) == ChildCalls(children, call, xpath, group_name, repeating)
        Out(branch, records, calls) ==
            [ branch |-> branch, xpath |-> xpath, records |-> records, calls |-> calls ]
    IN  IF ElementTooDeep(call.depth) THEN Out("too deep", << >>, << >>)
        ELSE IF name = Empty THEN Out("no name", << >>, << >>)
        ELSE IF inline # NoNode
        THEN IF simple # NoNode
             THEN Out("simpleContent", LeafRecord(SimpleContentType(simple, elem.type)), << >>)
             ELSE IF ext_type # Empty /\ ext_type \in DOMAIN complex_types
             THEN Out("extension", GroupRecord,
                      Calls(GetDirectChildElements(complex_types[ext_type], groups, complex_types)
                            \o (IF Find(inline, "complexContent") # NoNode
                                   /\ Find(Find(inline, "complexContent"), "extension") # NoNode
                                THEN GetDirectChildElements(
                                        Find(Find(inline, "complexContent"), "extension"),
                                        groups, complex_types)
                                ELSE << >>)))
             ELSE Out("inline", GroupRecord,
                      Calls(GetDirectChildElements(inline, groups, complex_types)))
        ELSE IF xsd_type # Empty /\ xsd_type \in DOMAIN complex_types
        THEN Out("named type", GroupRecord,
                 Calls(GetDirectChildElements(complex_types[xsd_type], groups, complex_types)))
        ELSE Out("leaf", LeafRecord(elem.type), << >>)

\* The top-level xs:element nodes of the document, as calls at depth 0.
TopLevelCalls(root) ==
    LET RECURSIVE from(_)
        from(nodes) ==
            IF nodes = << >> THEN << >>
            ELSE (IF Head(nodes).tag = "element"
                  THEN << Call(Head(nodes), Empty, Empty, FALSE, 0, Empty, FALSE) >>
                  ELSE << >>) \o from(Tail(nodes))
    IN  from(root)

\* self.schedule after _walk_schema: the name of the first top-level
\* xs:element that has one, else the name guessed from the file name.
DetectSchedule(sch) ==
    IF \E i \in 1..Len(sch.root) : sch.root[i].tag = "element" /\ sch.root[i].name # Empty
    THEN sch.root[CHOOSE i \in 1..Len(sch.root) :
                    /\ sch.root[i].tag = "element" /\ sch.root[i].name # Empty
                    /\ \A j \in 1..(i - 1) :
                          ~(sch.root[j].tag = "element" /\ sch.root[j].name # Empty)].name
    ELSE sch.stem

-----------------------------------------------------------------------------
(* SchemaParser as a state machine                                         *)

\* SchemaParser.__init__ for one of the documents.
WalkInit ==
    /\ elements_by_xpath = << >>
    /\ versions = << >>
    /\ canonical_fields = << >>
    /\ merge_log = << >>
    /\ absorb_log = << >>
    /\ lookup = NoLookup
    /\ pc = "collecting"
    /\ schema \in Schemas
    /\ self_schedule = schema.stem
    /\ stack = << >>
    /\ self_elements = << >>
    /\ walk_log = << >>
    /\ visit_log = << >>
    /\ wpc = "parse"
    /\ CollectorIdle /\ ResolverIdle /\ AgentIdle

\* parse(): etree.parse raises XMLSyntaxError; the parser returns [].
ParseFails ==
    /\ wpc = "parse"
    /\ ~schema.well_formed
    /\ wpc' = "done"
    /\ UNCHANGED <<schema, self_schedule, stack, self_elements, walk_log, visit_log>>
    /\ UNCHANGED <<builder_vars, tool_vars>>

\* _walk_schema up to its loop over the top-level elements: the schedule is
\* detected and the calls of the loop are pending.
WalkSchema ==
    /\ wpc = "parse"
    /\ schema.well_formed
    /\ self_schedule' = DetectSchedule(schema)
    /\ stack' = TopLevelCalls(schema.root)
    /\ wpc' = "walking"
    /\ UNCHANGED <<schema, self_elements, walk_log, visit_log>>
    /\ UNCHANGED <<builder_vars, tool_vars>>

\* One call of _process_element: the next pending call runs up to its
\* recursive calls, which become the next pending calls, in order.
ProcessElementCall ==
    /\ wpc = "walking"
    /\ stack # << >>
    /\ \E out \in { ProcessElement(Head(stack), self_schedule, schema.version,
                                   GroupsOf(schema), ComplexTypesOf(schema)) } :
        /\ self_elements' = self_elements \o out.records
        /\ walk_log' = walk_log \o
              [i \in 1..Len(out.records) |->
                  [ own_many   |-> PermitsMany(Head(stack).elem.maxOccurs),
                    under_many |-> Head(stack).under_many,
                    anchor     |-> Head(stack).anchor,
                    branch     |-> out.branch ]]
        /\ visit_log' = Append(visit_log,
              [ elem |-> Head(stack).elem, xpath |-> out.xpath, branch |-> out.branch,
                depth |-> Head(stack).depth, is_repeating |-> Head(stack).is_repeating,
                emitted |-> Len(out.records), calls |-> Len(out.calls) ])
        /\ stack' = out.calls \o Tail(stack)
    /\ UNCHANGED <<schema, self_schedule, wpc>>
    /\ UNCHANGED <<builder_vars, tool_vars>>

\* parse() returns self.elements.
ParseReturns ==
    /\ wpc = "walking"
    /\ stack = << >>
    /\ wpc' = "done"
    /\ UNCHANGED <<schema, self_schedule, stack, self_elements, walk_log, visit_log>>
    /\ UNCHANGED <<builder_vars, tool_vars>>

WalkNext ==
    \/ ParseFails
    \/ WalkSchema
    \/ ProcessElementCall
    \/ ParseReturns

WalkSpec == WalkInit /\ [][WalkNext]_vars

\* The parser is a sequential program: it keeps running until parse() returns.
WalkFairSpec == WalkSpec /\ WF_vars(WalkNext)

-----------------------------------------------------------------------------
(* Vocabulary of the properties                                            *)

Built == pc \in { "built", "written" }

\* The records handed to add_version.
Observed == UNION { Range(elements_by_xpath[x]) : x \in DOMAIN elements_by_xpath }

ObservedPaths == DOMAIN elements_by_xpath

\* The versions a path was observed in.
VersionsOfPath(p) == { e.version : e \in Range(elements_by_xpath[p]) }

\* The most recent record of a path, and the documentation the path carries.
LatestOf(p) == SortElems(elements_by_xpath[p])[Len(elements_by_xpath[p])]
DocOf(p) == BestDoc(SortElems(elements_by_xpath[p]))

FieldIdx == 1..Len(canonical_fields)

\* The paths in a field's version-to-path map.
PathsOf(cf) == { cf.xpaths_by_version[v] : v \in DOMAIN cf.xpaths_by_version }

\* The output fields that own path p.
OwnersOf(p) == { i \in FieldIdx : p \in PathsOf(canonical_fields[i]) }

\* Field cf maps every version p was observed in to p.
Covers(cf, p) ==
    \A v \in VersionsOfPath(p) :
        v \in DOMAIN cf.xpaths_by_version /\ cf.xpaths_by_version[v] = p

-----------------------------------------------------------------------------
(* C1: after build(), no two canonical fields of the output have the same  *)
(* canonical_name, whatever records were added (paths of two schedules     *)
(* that differ only in the schedule segment included).                     *)
C1_CanonicalNamesUnique ==
    Built =>
        \A i, j \in FieldIdx :
            i # j => canonical_fields[i].canonical_name # canonical_fields[j].canonical_name

\* The failing run of C1: the same leaf directly under two schedules.
C1_Witness ==
    /\ Built
    /\ ObservedPaths = { XPathOf(<< F9, Ein >>), XPathOf(<< F9Z, Ein >>) }
    /\ Len(canonical_fields) = 2
    /\ \A i \in FieldIdx : canonical_fields[i].canonical_name = Ein

(* C2: in the written lookup, every path of xpath_index maps to a          *)
(* canonical name whose entry of fields has that path as the value of its  *)
(* version-to-path map under some version.                                 *)
C2_ReverseIndexRoundTrip ==
    pc = "written" =>
        \A p \in DOMAIN lookup.xpath_index :
            /\ lookup.xpath_index[p] \in DOMAIN lookup.fields
            /\ \E v \in DOMAIN lookup.fields[lookup.xpath_index[p]].xpaths :
                    lookup.fields[lookup.xpath_index[p]].xpaths[v] = p

\* The failing run of C2: two fields were written under one key of fields,
\* and the reverse index still lists the paths of both.
C2_Witness ==
    /\ pc = "written"
    /\ lookup.metadata.total_fields = 2
    /\ Cardinality(DOMAIN lookup.fields) = 1
    /\ Cardinality(DOMAIN lookup.xpath_index) = 2

(* C3: a path observed verbatim in two or more versions is, after build(), *)
(* owned by a single canonical field, whose version-to-path map holds the  *)
(* path under each of those versions.                                      *)
C3_SamePathOneField ==
    Built =>
        \A p \in ObservedPaths :
            Cardinality(VersionsOfPath(p)) >= 2 =>
                /\ Cardinality(OwnersOf(p)) = 1
                /\ \A i \in OwnersOf(p) : Covers(canonical_fields[i], p)

\* A path of two versions whose field was merged with the field of another path.
C3_Witness ==
    /\ Built
    /\ \E p \in ObservedPaths :
        /\ Cardinality(VersionsOfPath(p)) >= 2
        /\ \E i \in OwnersOf(p) : PathsOf(canonical_fields[i]) # {p}

(* C4: for every canonical field of the output, after any number of        *)
(* description merges, versions_present has no duplicates, is in           *)
(* chronological (year, major, minor) order and is exactly the key set of  *)
(* xpaths_by_version.                                                      *)
C4_VersionsPresentSorted ==
    Built =>
        \A i \in FieldIdx :
            LET vp == canonical_fields[i].versions_present
            IN  /\ \A a, b \in 1..Len(vp) : a # b => vp[a] # vp[b]
                /\ \A a, b \in 1..Len(vp) : a < b => ~VersionLess(vp[b], vp[a])
                /\ Range(vp) = DOMAIN canonical_fields[i].xpaths_by_version

\* An output field that absorbed another field and spans several versions.
C4_Witness ==
    /\ Built
    /\ \E k \in 1..Len(merge_log) :
        \E i \in FieldIdx :
            /\ canonical_fields[i] = merge_log[k].primary_after
            /\ Len(canonical_fields[i].versions_present) >= 2

(* C5: description consolidation never merges two fields present in a      *)
(* common version: at every merge the version sets of primary and absorbed *)
(* field are disjoint, every entry of the primary survives the merge, and  *)
(* no observed (version, path) entry is missing from the output.           *)
C5_MergeOnlyDisjoint ==
    Built =>
        /\ \A k \in 1..Len(merge_log) :
            LET m == merge_log[k]
            IN  /\ Range(m.primary_before.versions_present)
                     \cap Range(m.absorbed.versions_present) = {}
                /\ DOMAIN m.primary_before.xpaths_by_version
                     \cap DOMAIN m.absorbed.xpaths_by_version = {}
                /\ \A v \in DOMAIN m.primary_before.xpaths_by_version :
                     /\ v \in DOMAIN m.primary_after.xpaths_by_version
                     /\ m.primary_after.xpaths_by_version[v]
                          = m.primary_before.xpaths_by_version[v]
        /\ \A e \in Observed :
            \E i \in FieldIdx :
                /\ e.version \in DOMAIN canonical_fields[i].xpaths_by_version
                /\ canonical_fields[i].xpaths_by_version[e.version] = e.xpath

\* A run with a merge in which two fields of one description group that share
\* a version both survive.
C5_Witness ==
    /\ Built
    /\ merge_log # << >>
    /\ \E i, j \in FieldIdx :
        /\ i # j
        /\ FieldDescKey(canonical_fields[i]) = FieldDescKey(canonical_fields[j])
        /\ Overlap(canonical_fields[i], canonical_fields[j]) # {}

(* C6: during build(), a path present in only a subset of the versions,   *)
(* for which exactly one other canonical field has the same schedule and   *)
(* the same leaf name, is absorbed into that field instead of becoming a   *)
(* canonical field of its own. Stated for the case most favourable to the  *)
(* absorption: the two paths never occur in a common version.              *)
C6_OrphanAbsorbedByLeafName ==
    Built =>
        \A p, q \in ObservedPaths :
            ( /\ p # q
              /\ VersionsOfPath(p) # Range(versions)
              /\ VersionsOfPath(p) \cap VersionsOfPath(q) = {}
              /\ { r \in ObservedPaths \ {p} :
                     /\ LatestOf(r).schedule = LatestOf(p).schedule
                     /\ LatestOf(r).element_name = LatestOf(p).element_name } = {q} )
            => \E i \in FieldIdx : {p, q} \subseteq PathsOf(canonical_fields[i])

\* The failing run of C6: two paths of one schedule with the same leaf name
\* and disjoint version sets; the loop over the orphans had nothing to look at
\* and both paths are fields of their own.
C6_Witness ==
    /\ Built
    /\ ObservedPaths = { XPathOf(<< F9, G2, Amt >>), XPathOf(<< F9, G2, G1, Amt >>) }
    /\ VersionsOfPath(XPathOf(<< F9, G2, Amt >>))
         \cap VersionsOfPath(XPathOf(<< F9, G2, G1, Amt >>)) = {}
    /\ absorb_log = << >>
    /\ Len(canonical_fields) = 2

RenamePair(p, q) ==
    /\ p # q
    /\ LatestOf(p).schedule = LatestOf(q).schedule
    /\ LatestOf(p).parent_group = LatestOf(q).parent_group
    /\ DocOf(p) # Empty /\ DocOf(p) = DocOf(q)
    /\ VersionsOfPath(p) \cap VersionsOfPath(q) = {}

\* The latest version p was observed in.
LastKeyOfPath(p) == VersionKey[LatestOf(p).version]

\* One output field stands for p and q: it is the only owner of either, its
\* map is the union of both maps, and it is named after the path whose
\* latest version is the more recent.
MergedIntoOne(p, q) ==
    /\ Cardinality(OwnersOf(p) \cup OwnersOf(q)) = 1
    /\ \A i \in OwnersOf(p) \cup OwnersOf(q) :
        /\ Covers(canonical_fields[i], p) /\ Covers(canonical_fields[i], q)
        /\ DOMAIN canonical_fields[i].xpaths_by_version
             = VersionsOfPath(p) \cup VersionsOfPath(q)
        /\ KeyLess(LastKeyOfPath(q), LastKeyOfPath(p))
             => canonical_fields[i].canonical_name = CanonicalName[p]
        /\ KeyLess(LastKeyOfPath(p), LastKeyOfPath(q))
             => canonical_fields[i].canonical_name = CanonicalName[q]

DescriptionOfPath(p) ==
    IF DocOf(p) # Empty THEN DocOf(p)
    ELSE InferredDescription[<< p, LatestOf(p).element_name >>]

C9_NoDisjointPairLeft ==
    Built =>
        \A i, j \in FieldIdx :
            i # j =>
                ~( /\ canonical_fields[i].schedule = canonical_fields[j].schedule
                   /\ canonical_fields[i].parent_group = canonical_fields[j].parent_group
                   /\ canonical_fields[i].human_description
                        = canonical_fields[j].human_description
                   /\ Overlap(canonical_fields[i], canonical_fields[j]) = {} )

\* The failing run of C9: three fields in one description group, the primary
\* shares a version with each of the other two, which are disjoint.
C9_Witness ==
    /\ Built
    /\ Len(canonical_fields) = 3
    /\ merge_log = << >>
    /\ \A i, j \in FieldIdx : FieldDescKey(canonical_fields[i]) = FieldDescKey(canonical_fields[j])
    /\ \E i, j \in FieldIdx :
        /\ i # j
        /\ canonical_fields[i].human_description = canonical_fields[j].human_description
        /\ Overlap(canonical_fields[i], canonical_fields[j]) = {}

(* C10: build() never merges across schedules: every path of a canonical   *)
(* field's map was observed with the field's schedule, and two paths       *)
(* observed with different schedules are owned by different fields.        *)
C10_NoCrossScheduleMerge ==
    Built =>
        /\ \A i \in FieldIdx :
            \A e \in Observed :
                e.xpath \in PathsOf(canonical_fields[i])
                    => e.schedule = canonical_fields[i].schedule
        /\ \A p, q \in ObservedPaths :
            LatestOf(p).schedule # LatestOf(q).schedule
                => OwnersOf(p) \cap OwnersOf(q) = {}

\* The same leaf in two schedules, with the same documentation and group and
\* disjoint version sets: two fields in the output.
C10_Witness ==
    /\ Built
    /\ \E p, q \in ObservedPaths :
        /\ LatestOf(p).schedule # LatestOf(q).schedule
        /\ LatestOf(p).element_name = LatestOf(q).element_name
        /\ LatestOf(p).parent_group = LatestOf(q).parent_group
        /\ DocOf(p) # Empty /\ DocOf(p) = DocOf(q)
        /\ VersionsOfPath(p) \cap VersionsOfPath(q) = {}
        /\ OwnersOf(p) \cap OwnersOf(q) = {}
        /\ OwnersOf(p) # {} /\ OwnersOf(q) # {}

(* C11: every path observed in any version is a key of the written reverse *)
(* index and maps there to the canonical name of the field that owns it;   *)
(* no observed path is lost by merging or by writing.                      *)
C11_ReverseIndexComplete ==
    pc = "written" =>
        \A p \in ObservedPaths :
            /\ p \in DOMAIN lookup.xpath_index
            /\ OwnersOf(p) # {}
            /\ \A i \in OwnersOf(p) :
                lookup.xpath_index[p] = canonical_fields[i].canonical_name

\* A written lookup whose index holds the path of a field that was merged
\* away, under the name of the field that absorbed it.
C11_Witness ==
    /\ pc = "written"
    /\ merge_log # << >>
    /\ \E p \in ObservedPaths :
        /\ p \in DOMAIN lookup.xpath_index
        /\ lookup.xpath_index[p] # CanonicalName[p]

(* C12: for every canonical field of the output and every entry (v, p) of  *)
(* its version-to-path map, a record with xpath p and version v was passed *)
(* to add_version: merging invents no entry and gives no path a version it *)
(* was not observed in.                                                    *)
C12_EntriesObserved ==
    Built =>
        \A i \in FieldIdx :
            \A v \in DOMAIN canonical_fields[i].xpaths_by_version :
                \E e \in Observed :
                    /\ e.version = v
                    /\ e.xpath = canonical_fields[i].xpaths_by_version[v]

\* An output field that holds the entries of two paths after a merge.
C12_Witness ==
    /\ Built
    /\ merge_log # << >>
    /\ \E i \in FieldIdx :
        /\ Cardinality(PathsOf(canonical_fields[i])) >= 2
        /\ Cardinality(DOMAIN canonical_fields[i].xpaths_by_version) >= 3

\* The documentation texts the records of path p carry.
DocsOfPath(p) == { e.documentation : e \in Range(elements_by_xpath[p]) } \ { Empty }

(* C13: every canonical field build() produces has a non-empty             *)
(* description: a documentation text of its path when a record of some     *)
(* version carries one, otherwise the description synthesized from the     *)
(* leaf name and the enclosing path segment.                               *)
C13_DescriptionNonEmpty ==
    Built =>
        \A i \in FieldIdx :
            /\ canonical_fields[i].human_description # Empty
            /\ \E p \in PathsOf(canonical_fields[i]) :
                /\ CanonicalName[p] = canonical_fields[i].canonical_name
                /\ DocsOfPath(p) # {}
                     => canonical_fields[i].human_description \in DocsOfPath(p)
                /\ DocsOfPath(p) = {}
                     => canonical_fields[i].human_description
                          = InferredDescription[<< p, LatestOf(p).element_name >>]

\* Output with a field of an undocumented one-segment path (described by its
\* element name), a field of an undocumented nested path (synthesized
\* description) and a field whose documentation comes from an older record.
C13_Witness ==
    /\ Built
    /\ \E p \in ObservedPaths : DocsOfPath(p) = {} /\ p = XPathOf(<< F9 >>)
    /\ \E p \in ObservedPaths : DocsOfPath(p) = {} /\ p # XPathOf(<< F9 >>)
    /\ \E p \in ObservedPaths : DocsOfPath(p) # {} /\ LatestOf(p).documentation = Empty

Chronological(by_xpath) ==
    [x \in DOMAIN by_xpath |->
        StableSort(by_xpath[x],
            [i \in 1..Len(by_xpath[x]) |-> [j \in 1..Len(by_xpath[x]) |->
                MainPos(by_xpath[x][i].version) < MainPos(by_xpath[x][j].version)]])]

\* A canonical field without the insertion order of its map, which Python's
\* equality of dicts does not look at.
AsMapping(cf) ==
    [ canonical_name    |-> cf.canonical_name,
      schedule          |-> cf.schedule,
      human_description |-> cf.human_description,
      xpaths_by_version |-> cf.xpaths_by_version,
      parent_group      |-> cf.parent_group,
      versions_present  |-> cf.versions_present ]

AsMappings(fields) == [i \in 1..Len(fields) |-> AsMapping(fields[i])]

\* The versions of the run have pairwise distinct sort keys.
DistinctSortKeys ==
    \A v, w \in Range(versions) : v # w => VersionKey[v] # VersionKey[w]

(* C15: the result of build() does not depend on the order of the          *)
(* add_version calls: when the versions added have distinct chronological  *)
(* sort keys, the list of canonical fields (names, descriptions, maps,     *)
(* versions present, survivors of the merges) is the one build() gives     *)
(* after the calls were made in chronological order.                       *)
C15_AddOrderIndependent ==
    (Built /\ DistinctSortKeys) =>
        \A hash_order \in HashOrders :
            AsMappings(canonical_fields)
                = AsMappings(BuildResult(<< >>, Chronological(elements_by_xpath),
                                         hash_order).fields)

\* A run whose calls were not in chronological order, with a path of two
\* versions registered latest first, and a merge in build().
C15_Witness ==
    /\ Built
    /\ DistinctSortKeys
    /\ merge_log # << >>
    /\ \E x \in DOMAIN elements_by_xpath :
        /\ Len(elements_by_xpath[x]) >= 2
        /\ MainPos(elements_by_xpath[x][1].version) > MainPos(elements_by_xpath[x][2].version)

\* ---------------------------------------------------------------------------
\* The walker (SchemaParser), under WalkSpec
\* ---------------------------------------------------------------------------

\* The records emitted so far, by position; walk_log[i] is the history of the
\* call that emitted record i.
Emitted == 1..Len(self_elements)

\* C16: every record emitted for an element whose own maxOccurs permits more
\* than one instance (unbounded, or a number greater than 1), and every record
\* emitted for a descendant of such an element, has is_repeating = TRUE; a
\* repeating element that is itself a leaf included.
C16_RepeatingTagged ==
    \A i \in Emitted :
        (walk_log[i].own_many \/ walk_log[i].under_many) => self_elements[i].is_repeating

\* C16, the failing runs: parse() has returned, and a leaf declared with
\* maxOccurs="unbounded" outside any repeating element is recorded with
\* is_repeating = FALSE, and so is a leaf beneath a container declared with
\* maxOccurs="5".
C16_Witness ==
    /\ wpc = "done"
    /\ \E i \in Emitted :
        /\ walk_log[i].branch = "leaf"
        /\ self_elements[i].max_occurs = Unbounded
        /\ ~walk_log[i].under_many
        /\ ~self_elements[i].is_repeating
    /\ \E i \in Emitted :
        /\ walk_log[i].under_many
        /\ ~walk_log[i].own_many
        /\ ~self_elements[i].is_repeating

\* The records of leaf fields: those of the two leaf cases of _process_element.
LeafRecords == { i \in Emitted : walk_log[i].branch \in { "leaf", "simpleContent" } }

\* C17: every leaf recorded beneath a repeating element, at any nesting
\* depth, has as parent_group the name of the nearest ancestor whose own
\* maxOccurs permits more than one instance, not the name of an intermediate
\* container and not the name of the document's outer element.
C17_GroupIsNearestAnchor ==
    \A i \in LeafRecords :
        walk_log[i].under_many => self_elements[i].parent_group = walk_log[i].anchor

\* C17, the failing run: parse() has returned, R is declared unbounded, and a
\* leaf two levels beneath it, inside the container C whose own maxOccurs is
\* absent, carries the name of C as its group.
C17_Witness ==
    /\ wpc = "done"
    /\ \E i \in LeafRecords :
        /\ walk_log[i].under_many
        /\ walk_log[i].anchor = NmR
        /\ self_elements[i].is_repeating
        /\ self_elements[i].element_name = <<"c">>
        /\ self_elements[i].parent_group = NmC
    /\ \E j \in Emitted :
        /\ self_elements[j].element_name = NmC
        /\ self_elements[j].max_occurs = Empty

\* A group reference among the content of a type (not inside a nested element
\* declaration) whose name is not in the group registry.
RECURSIVE HasUnresolvedGroupRef(_, _)
HasUnresolvedGroupRef(nodes, groups) ==
    /\ nodes # << >>
    /\ \/ /\ Head(nodes).tag = "group"
          /\ Head(nodes).ref # Empty
          /\ StripNsPrefix(Head(nodes).ref) \notin DOMAIN groups
       \/ /\ Head(nodes).tag # "element"
          /\ HasUnresolvedGroupRef(Head(nodes).children, groups)
       \/ HasUnresolvedGroupRef(Tail(nodes), groups)

\* The element declaration refers to a type, an extension base or a group
\* that the registries do not hold.
UnresolvedReference(elem) ==
    LET inline == Find(elem, "complexType")
    IN  IF inline = NoNode
        THEN elem.type # Empty /\ StripNsPrefix(elem.type) \notin DOMAIN ComplexTypesOf(schema)
        ELSE \/ /\ ResolveExtension(inline) # Empty
                /\ ResolveExtension(inline) \notin DOMAIN ComplexTypesOf(schema)
             \/ HasUnresolvedGroupRef(inline.children, GroupsOf(schema))

\* path is xpath itself or lies beneath it.
AtOrBeneath(path, xpath) ==
    /\ Len(path) >= Len(xpath)
    /\ SubSeq(path, 1, Len(xpath)) = xpath
    /\ Len(path) > Len(xpath) => path[Len(xpath) + 1] = "/"

\* The calls of _process_element that got past its two early returns: the
\* element declarations the walk reached, each with a name and a path.
Reached == { k \in 1..Len(visit_log) : visit_log[k].branch \notin { "too deep", "no name" } }

\* C18: an element declaration whose type reference, extension base or group
\* reference is not in the registries is recorded as a leaf at its own path,
\* and once parse() has returned every element declaration the walk reached
\* (short of the depth bound) has a record at or beneath its path.
C18_UnresolvedDegradesToLeaf ==
    /\ \A k \in Reached :
          UnresolvedReference(visit_log[k].elem) =>
              \E i \in Emitted :
                  /\ self_elements[i].xpath = visit_log[k].xpath
                  /\ self_elements[i].xsd_type # GroupType
    /\ wpc = "done" =>
          \A k \in Reached :
              visit_log[k].depth < MaxElementDepth =>
                  \E i \in Emitted : AtOrBeneath(self_elements[i].xpath, visit_log[k].xpath)

\* C18, the failing run: parse() has returned without an error, the walk
\* reached an element whose inline type extends a base that is in no
\* registry, and no record lies at or beneath the element's path.
C18_Witness ==
    /\ wpc = "done"
    /\ \E k \in Reached :
        /\ ResolveExtension(Find(visit_log[k].elem, "complexType")) = Missing
        /\ visit_log[k].branch = "inline"
        /\ \A i \in Emitted : ~AtOrBeneath(self_elements[i].xpath, visit_log[k].xpath)

\* The paths of the records emitted so far, in order.
EmittedPaths == [i \in Emitted |-> self_elements[i].xpath]

\* The fields of the element E of a chain document: the child c_k declared
\* by each type T_k of the chain, T_1 first, then the child the element's own
\* extension adds.
ChainFields(n, shape) ==
    [k \in 1..n |-> << "/" >> \o F9 \o << "/" >> \o NmE \o << "/" >> \o CName(k)]
    \o (IF shape = "extension"
        THEN << << "/" >> \o F9 \o << "/" >> \o NmE \o << "/" >> \o NmX >>
        ELSE << >>)

\* C19: for an element whose type is reached through an inheritance chain of
\* any length n (T_n extends T_(n-1) ... extends T_1), the walker emits the
\* children of every type of the chain, the inherited ones before those of the
\* extension; no level is dropped however long the chain.
C19_ChainFullyUnwound ==
    (wpc = "done" /\ schema.kind = "chain") =>
        EmittedPaths = ChainFields(schema.n, schema.shape)

\* C19, the failing run: parse() has returned for a chain of 16 types and
\* the children of T_1 and T_2 are not among the records, while those of
\* T_3 .. T_16 are.
C19_Witness ==
    /\ wpc = "done"
    /\ schema.kind = "chain"
    /\ schema.n = MaxCollectDepth + 1
    /\ EmittedPaths = SubSeq(ChainFields(schema.n, schema.shape), 3,
                             Len(ChainFields(schema.n, schema.shape)))

\* The chains the collection bound leaves whole: up to MaxCollectDepth types.
C19_ShortChainsUnwound ==
    (wpc = "done" /\ schema.kind = "chain" /\ schema.n <= MaxCollectDepth) =>
        EmittedPaths = ChainFields(schema.n, schema.shape)

\* ---------------------------------------------------------------------------
\* Termination of the walk, under WalkFairSpec
\* ---------------------------------------------------------------------------

\* The number of segments of a path: "/F9/X/a" has three.
Segments(xpath) == Cardinality({ i \in 1..Len(xpath) : xpath[i] = "/" })

\* A call past the depth bound returns at once: no record, no further call.
StopsSilently ==
    \A k \in 1..Len(visit_log) :
        visit_log[k].depth > MaxElementDepth =>
            /\ visit_log[k].branch = "too deep"
            /\ visit_log[k].emitted = 0
            /\ visit_log[k].calls = 0

\* C20: parse() terminates on every document and registry, cyclic ones
\* included: it returns (no error is an outcome of the walk), a call past the
\* element depth bound stops silently, no call is made deeper than one past
\* the bound, and no emitted path has more segments than the bound allows
\* (one per depth 0..MaxElementDepth, and the schedule in front).
C20_ParseTerminates ==
    /\ <>(wpc = "done")
    /\ [](StopsSilently)
    /\ [](\A k \in 1..Len(stack) : stack[k].depth <= MaxElementDepth + 1)
    /\ [](\A i \in Emitted : Segments(self_elements[i].xpath) <= MaxElementDepth + 2)

\* C20: parse() has returned for the document whose type holds an element of
\* its own type; the walk went down to the bound, where it was cut, and the
\* longest path has as many segments as the bound allows.
C20_Witness ==
    /\ wpc = "done"
    /\ schema.kind = "cyclic"
    /\ \E k \in 1..Len(visit_log) : visit_log[k].branch = "too deep"
    /\ \E i \in Emitted : Segments(self_elements[i].xpath) = MaxElementDepth + 2

\* ---------------------------------------------------------------------------
\* Description consolidation and the written lookup, under Spec
\* ---------------------------------------------------------------------------

\* The field's description is documentation text: some record of one of its
\* paths carries it. Otherwise _make_canonical synthesized it.
Documented(cf) == \E p \in PathsOf(cf) : cf.human_description \in DocsOfPath(p)

\* C26: description consolidation merges two canonical fields only when both
\* carry schema documentation text and the two texts are identical; two fields
\* without documentation, which carry synthesized descriptions only, are never
\* merged by it.
C26_MergeOnlyDocumented ==
    Built =>
        \A k \in 1..Len(merge_log) :
            /\ Documented(merge_log[k].primary_before)
            /\ Documented(merge_log[k].absorbed)
            /\ merge_log[k].primary_before.human_description
                 = merge_log[k].absorbed.human_description

\* C26, the failing run: build() has merged two fields none of whose records
\* carries documentation; their synthesized descriptions are equal.
C26_Witness ==
    /\ Built
    /\ \E k \in 1..Len(merge_log) :
        /\ \A p \in PathsOf(merge_log[k].primary_before) \cup PathsOf(merge_log[k].absorbed) :
               DocsOfPath(p) = {}
        /\ merge_log[k].primary_before.human_description
             = merge_log[k].absorbed.human_description
        /\ \E i \in FieldIdx : canonical_fields[i] = merge_log[k].primary_after

\* C28: after build(), every observed path occurs in the version-to-path map
\* of exactly one canonical field of the output: each merge moved all entries
\* of the absorbed field to its primary, the absorbed field is gone from the
\* output, and no path is owned by two surviving fields.
C28_EachPathOneOwner ==
    Built =>
        /\ \A p \in ObservedPaths : Cardinality(OwnersOf(p)) = 1
        /\ \A k \in 1..Len(merge_log) :
            /\ \A v \in DOMAIN merge_log[k].absorbed.xpaths_by_version :
                /\ v \in DOMAIN merge_log[k].primary_after.xpaths_by_version
                /\ merge_log[k].primary_after.xpaths_by_version[v]
                     = merge_log[k].absorbed.xpaths_by_version[v]
            /\ \A i \in FieldIdx : canonical_fields[i] # merge_log[k].absorbed

\* C28: build() has merged twice into one primary, which owns three paths.
C28_Witness ==
    /\ Built
    /\ Len(merge_log) = 2
    /\ \E i \in FieldIdx : Cardinality(PathsOf(canonical_fields[i])) = 3
    /\ \A p \in ObservedPaths : Cardinality(OwnersOf(p)) = 1

C30_TotalFieldsCounted ==
    pc = "written" =>
        /\ lookup.metadata.total_fields = Cardinality(DOMAIN lookup.fields)
        /\ \A i \in FieldIdx :
            /\ canonical_fields[i].canonical_name \in DOMAIN lookup.fields
            /\ lookup.fields[canonical_fields[i].canonical_name]
                 = LookupEntry(canonical_fields[i])

\* C30, the failing run: the lookup was written for two fields of different
\* schedules that share a canonical name; total_fields counts both and the
\* table holds the entry of the later one only.
C30_Witness ==
    /\ pc = "written"
    /\ \E i, j \in FieldIdx :
        /\ i < j
        /\ canonical_fields[i].canonical_name = canonical_fields[j].canonical_name
        /\ canonical_fields[i].schedule # canonical_fields[j].schedule
        /\ lookup.fields[canonical_fields[i].canonical_name] = LookupEntry(canonical_fields[j])
        /\ lookup.fields[canonical_fields[i].canonical_name] # LookupEntry(canonical_fields[i])
    /\ lookup.metadata.total_fields > Cardinality(DOMAIN lookup.fields)

\* ---------------------------------------------------------------------------
\* The walker's records are leaves, under WalkSpec
\* ---------------------------------------------------------------------------

\* Path p is a proper prefix of path q: q lies strictly beneath p.
ProperPrefix(p, q) == p # q /\ AtOrBeneath(q, p)

\* C27: every record the walker emits is a leaf field: within one document
\* and version no emitted path is a proper prefix of another emitted path,
\* so container elements never appear as records.
C27_RecordsAreLeaves ==
    \A i, j \in Emitted : ~ProperPrefix(self_elements[i].xpath, self_elements[j].xpath)

\* C27, the failing run: parse() has returned; the container R, declared
\* unbounded, has a record of type "(group)" and so has the leaf b beneath it.
C27_Witness ==
    /\ wpc = "done"
    /\ \E i, j \in Emitted :
        /\ self_elements[i].element_name = NmR
        /\ self_elements[i].xsd_type = GroupType
        /\ self_elements[i].max_occurs = Unbounded
        /\ walk_log[j].branch = "leaf"
        /\ self_elements[j].xpath = self_elements[i].xpath \o << "/" >> \o NmB
-----------------------------------------------------------------------------
(* extract_fields.resolve_xpath: the path of a field in a filing's version *)

V13d == << "2", "0", "1", "3", "v", "4", ".", "0" >>
V18  == << "2", "0", "1", "8", "v", "1", ".", "1", "2" >>
V18b == << "2", "0", "1", "8", "v", "2", ".", "1" >>
V18c == << "2", "0", "1", "8", "v", "3", ".", "0" >>

\* The keys a field's "xpaths" object of field_lookup.json can hold, in the
\* order the object lists them.
ResolverKeys == << V13b, V13, V13d, V14, V16, V18, V18b, V18c >>

\* The returnVersion attributes of the filings; "" when the attribute is missing.
FilingVersions == Range(ResolverKeys) \cup { Empty }

\* The path a field has in the version of a key: one path for each key.
PathIn(v) == << "/" >> \o v

NoPath == << >>     \* None

\* parse_ver: re.match(r"(\d{4})v(\d+)\.(\d+)", v), (year, major * 10 + minor),
\* (0, 0) when the string does not match.
ParseVer(v) ==
    IF Len(v) < 5 \/ (\E i \in 1..4 : ~IsDigit(v[i])) \/ v[5] # "v"
    THEN << 0, 0 >>
    ELSE
        LET n  == Len(v)
            r2 == DigitRun(v, 6)
            i3 == 6 + r2
            r3 == DigitRun(v, i3 + 1)
        IN  IF r2 = 0 \/ i3 > n \/ v[i3] # "." \/ r3 = 0
            THEN << 0, 0 >>
            ELSE << ToInt(SubSeq(v, 1, 4)),
                    ToInt(SubSeq(v, 6, i3 - 1)) * 10 + ToInt(SubSeq(v, i3 + 1, i3 + r3)) >>

ParsedVer == [v \in FilingVersions |-> ParseVer(v)]

\* Python's < on the pairs parse_ver returns.
PairLess(a, b) == a[1] < b[1] \/ (a[1] = b[1] /\ a[2] < b[2])

\* sorted(xpaths.keys(), key=parse_ver)
Available(xpaths) ==
    LET keys == SelectSeq(ResolverKeys, LAMBDA v : v \in DOMAIN xpaths)
    IN  StableSort(keys, [i \in 1..Len(keys) |-> [j \in 1..Len(keys) |->
                            PairLess(ParsedVer[keys[i]], ParsedVer[keys[j]])]])

\* Step 4: xpaths[available[-1]]
NearestOverall(xpaths, available) == xpaths[available[Len(available)]]

\* Steps 2 to 4 of resolve_xpath.
Fallback(xpaths, version, available) ==
    LET target    == ParsedVer[version]
        same_year == SelectSeq(available, LAMBDA v : ParsedVer[v][1] = target[1])
        prior     == SelectSeq(available, LAMBDA v : PairLess(ParsedVer[v], target))
    IN  IF same_year # << >> THEN xpaths[same_year[Len(same_year)]]
        ELSE IF prior # << >> THEN xpaths[prior[Len(prior)]]
        ELSE NearestOverall(xpaths, available)

\* resolve_xpath(xpaths, version)
ResolveXPathOf(xpaths, version) ==
    IF DOMAIN xpaths = { } THEN NoPath
    ELSE IF version \in DOMAIN xpaths THEN xpaths[version]
    ELSE Fallback(xpaths, version, Available(xpaths))

\* The "xpaths" objects: every set of at most MaxKeys keys, each with its path.
MaxKeys == 3

XPathMaps ==
    { [v \in K |-> PathIn(v)] :
        K \in { S \in SUBSET Range(ResolverKeys) : Cardinality(S) <= MaxKeys } }

ResolveInit ==
    /\ BuilderIdle /\ ParserIdle /\ CollectorIdle /\ AgentIdle
    /\ xpath_map \in XPathMaps
    /\ filing_version \in FilingVersions
    /\ resolved = NoPath
    /\ rpc = "call"

\* One call of resolve_xpath.
ResolveXPath ==
    /\ rpc = "call"
    /\ resolved' = ResolveXPathOf(xpath_map, filing_version)
    /\ rpc' = "returned"
    /\ UNCHANGED <<xpath_map, filing_version>>
    /\ UNCHANGED <<builder_vars, parser_vars, collector_vars, agent_vars>>

ResolveNext == ResolveXPath

ResolveSpec == ResolveInit /\ [][ResolveNext]_vars
-----------------------------------------------------------------------------
(* The fallbacks of resolve_xpath                                          *)

\* The chronological order of the version identifiers: the year, the major
\* and the minor number, as _version_sort_key reads them.
Chrono == [v \in FilingVersions |-> VersionSortKey(v)]
Earlier(v, w) == KeyLess(Chrono[v], Chrono[w])
YearOf(v) == Chrono[v][1]

\* The paths of the latest keys of S, and of the earliest.
PathsOfLatest(S) == { xpath_map[k] : k \in { j \in S : \A i \in S : ~Earlier(j, i) } }
PathsOfEarliest(S) == { xpath_map[k] : k \in { j \in S : \A i \in S : ~Earlier(i, j) } }

SameYearKeys == { k \in DOMAIN xpath_map : YearOf(k) = YearOf(filing_version) }
EarlierKeys == { k \in DOMAIN xpath_map : Earlier(k, filing_version) }

(* C22: resolve_xpath applies its fallbacks in strict priority: the path    *)
(* of the filing's version when it is a key; otherwise the path of the     *)
(* latest key of the same year when there is one; otherwise the path of    *)
(* the latest chronologically earlier key when there is one.               *)
C22_FallbackPriority ==
    rpc = "returned" =>
        IF filing_version \in DOMAIN xpath_map
        THEN resolved = xpath_map[filing_version]
        ELSE IF SameYearKeys # { }
        THEN resolved \in PathsOfLatest(SameYearKeys)
        ELSE EarlierKeys # { } => resolved \in PathsOfLatest(EarlierKeys)

\* C22: the filing is of 2018v3.0, the map holds 2018v1.12 and 2018v2.1, and
\* the path of 2018v1.12 is returned, not that of the later 2018v2.1.
C22_Witness ==
    /\ rpc = "returned"
    /\ filing_version = V18c
    /\ DOMAIN xpath_map = { V18, V18b }
    /\ resolved = xpath_map[V18]

(* C23: when the map is not empty and holds no exact, same-year or earlier *)
(* key for the filing's version, resolve_xpath returns the path of the     *)
(* chronologically closest key, the earliest of the later keys.            *)
C23_NearestAvailable ==
    ( /\ rpc = "returned"
      /\ DOMAIN xpath_map # { }
      /\ filing_version \notin DOMAIN xpath_map
      /\ SameYearKeys = { }
      /\ EarlierKeys = { } )
    => resolved \in PathsOfEarliest(DOMAIN xpath_map)

\* C23: the filing is of 2013v3.0, the map holds 2016v3.0 and 2018v2.1, and
\* the path of 2018v2.1 is returned, not that of the nearer 2016v3.0.
C23_Witness ==
    /\ rpc = "returned"
    /\ filing_version = V13
    /\ DOMAIN xpath_map = { V16, V18b }
    /\ resolved = xpath_map[V18b]
-----------------------------------------------------------------------------
(* irs990_agent.run_agent: generate, execute, validate, fix                *)

MAX_RETRIES == 5

\* The largest max_retries tried beside the default.
MaxTried == 3

\* --max-retries takes any integer.
RetryLimits == (-1 .. MaxTried) \cup { MAX_RETRIES }

\* AgentResult(): success False, iterations 0, history [].
NewAgentResult == [ success |-> FALSE, iterations |-> 0, history |-> << >> ]

NotRun == [ returncode |-> 0, validation |-> "none" ]

\* What a call of the LLM does: it returns text or the client raises.
LLMOutcomes == { "text", "raises" }

\* What validate_output returns: a dict whose "valid" is true, a dict whose
\* "valid" is false or missing, JSON that is no dict (.get raises), or the
\* client raises.
Validations == { "valid", "invalid", "no dict", "raises" }

\* The return codes of the generated script; a timeout counts as 1.
ReturnCodes == { 0, 1 }

AgentInit ==
    /\ BuilderIdle /\ ParserIdle /\ CollectorIdle /\ ResolverIdle
    /\ max_retries \in RetryLimits
    /\ validate \in BOOLEAN
    /\ xml_paths \in { 0, 1 }
    /\ agent_result = NewAgentResult
    /\ iteration = 0
    /\ agent_log = << >>
    /\ last_run = NotRun
    /\ apc = "start"

\* if iteration <= max_retries: a fix is asked for after the last iteration too.
CanRetryOnLast(i, limit) == i <= limit

\* if iteration < max_retries
CanRetry(i, limit) == i < limit

\* not validation.get("valid", False), with every validation passing.
ValidationNeverFails(validation) == FALSE

\* not validation.get("valid", False)
ValidationFailed(validation) == validation # "valid"

\* The head of the loop: for iteration in range(1, max_retries + 1), and
\* result.iterations = iteration; past the range, return result.
EnterIteration(i) ==
    IF i <= max_retries
    THEN /\ iteration' = i
         /\ agent_result' = [agent_result EXCEPT !.iterations = i]
         /\ apc' = "execute"
    ELSE /\ apc' = "returned"
         /\ UNCHANGED <<iteration, agent_result>>

\* A failed iteration: its log goes to the history; a fix is asked for when
\* a retry is left, otherwise the loop is left.
IterationFailed(action) ==
    /\ agent_result' = [agent_result EXCEPT !.history = Append(@, action)]
    /\ apc' = IF CanRetry(iteration, max_retries) THEN "fix" ELSE "returned"

\* iter_log["action"] = "success"; result.success = True; break
IterationSucceeded ==
    /\ agent_result' = [agent_result EXCEPT !.history = Append(@, "success"),
                                            !.success = TRUE]
    /\ apc' = "returned"

\* if not xml_paths: return result
NoXmlPaths ==
    /\ apc = "start"
    /\ xml_paths = 0
    /\ apc' = "returned"
    /\ UNCHANGED <<max_retries, validate, xml_paths, agent_result, iteration, agent_log, last_run>>
    /\ UNCHANGED <<builder_vars, parser_vars, collector_vars, resolver_vars>>

\* Step 1: code = generate_code(...), then the loop is entered.
GenerateCode ==
    /\ apc = "start"
    /\ xml_paths # 0
    /\ \E llm \in LLMOutcomes :
        /\ agent_log' = Append(agent_log, "generate")
        /\ IF llm = "raises"
           THEN apc' = "raised" /\ UNCHANGED <<iteration, agent_result>>
           ELSE EnterIteration(1)
    /\ UNCHANGED <<max_retries, validate, xml_paths, last_run>>
    /\ UNCHANGED <<builder_vars, parser_vars, collector_vars, resolver_vars>>

\* Step 2: stdout, stderr, returncode = execute_code(code), and what follows
\* up to the next call of the LLM.
ExecuteCode ==
    /\ apc = "execute"
    /\ \E returncode \in ReturnCodes :
        /\ agent_log' = Append(agent_log, "execute")
        /\ last_run' = [ returncode |-> returncode, validation |-> "none" ]
        /\ IF returncode # 0 THEN IterationFailed("fix")
           ELSE IF validate THEN apc' = "validate" /\ UNCHANGED agent_result
           ELSE IterationSucceeded
    /\ UNCHANGED <<max_retries, validate, xml_paths, iteration>>
    /\ UNCHANGED <<builder_vars, parser_vars, collector_vars, resolver_vars>>

\* Step 4: validation = validate_output(client, query, stdout)
ValidateOutput ==
    /\ apc = "validate"
    /\ \E validation \in Validations :
        /\ agent_log' = Append(agent_log, "validate")
        /\ last_run' = [last_run EXCEPT !.validation = validation]
        /\ IF validation \in { "no dict", "raises" }
           THEN apc' = "raised" /\ UNCHANGED agent_result
           ELSE IF ValidationFailed(validation)
           THEN IterationFailed("rewrite (validation)")
           ELSE IterationSucceeded
    /\ UNCHANGED <<max_retries, validate, xml_paths, iteration>>
    /\ UNCHANGED <<builder_vars, parser_vars, collector_vars, resolver_vars>>

\* Step 3 and step 5: code = fix_code(...); continue
FixCode ==
    /\ apc = "fix"
    /\ \E llm \in LLMOutcomes :
        /\ agent_log' = Append(agent_log, "fix")
        /\ IF llm = "raises"
           THEN apc' = "raised" /\ UNCHANGED <<iteration, agent_result>>
           ELSE EnterIteration(iteration + 1)
    /\ UNCHANGED <<max_retries, validate, xml_paths, last_run>>
    /\ UNCHANGED <<builder_vars, parser_vars, collector_vars, resolver_vars>>

AgentNext ==
    \/ NoXmlPaths
    \/ GenerateCode
    \/ ExecuteCode
    \/ ValidateOutput
    \/ FixCode

AgentSpec == AgentInit /\ [][AgentNext]_vars

\* Every call of the LLM and every run of the script comes back: the script
\* is stopped after TIMEOUT_SECONDS and the client gives up with an error.
AgentFairSpec == AgentSpec /\ WF_vars(AgentNext)
-----------------------------------------------------------------------------
(* The retries and the verdict of run_agent                                *)

\* How often run_agent took a step of a kind.
Count(step) == Cardinality({ i \in DOMAIN agent_log : agent_log[i] = step })

AtLeastZero(n) == IF n > 0 THEN n ELSE 0

AgentEnded == apc \in { "returned", "raised" }

(* C24 as stated: run_agent always terminates; it runs the generated code  *)
(* at most max_retries times, requests a fix at most max_retries - 1       *)
(* times, and returns with result.iterations <= max_retries.               *)
C24_BoundedByMaxRetries ==
    /\ <>AgentEnded
    /\ [](/\ Count("execute") <= max_retries
          /\ Count("fix") <= max_retries - 1
          /\ (apc = "returned" => agent_result.iterations <= max_retries))

(* C24, amended: run_agent always ends, by returning or by an exception of *)
(* the LLM client or of validation.get; it runs the generated code at most *)
(* max(max_retries, 0) times, requests a fix at most                       *)
(* max(max_retries - 1, 0) times, and when it returns                      *)
(* result.iterations <= max(max_retries, 0).                               *)
C24_BoundedRetries ==
    /\ <>AgentEnded
    /\ [](/\ Count("execute") <= AtLeastZero(max_retries)
          /\ Count("fix") <= AtLeastZero(max_retries - 1)
          /\ (apc = "returned" => agent_result.iterations <= AtLeastZero(max_retries)))

\* C24: a run with the default limit that used every execution and every fix.
C24_Witness ==
    /\ apc = "returned"
    /\ max_retries = MAX_RETRIES
    /\ Count("execute") = MAX_RETRIES
    /\ Count("fix") = MAX_RETRIES - 1
    /\ agent_result.iterations = MAX_RETRIES

\* The loop was left by a break after a failed last iteration, or never ran.
RetriesExhausted ==
    /\ apc = "returned"
    /\ xml_paths # 0
    /\ agent_result.iterations = AtLeastZero(max_retries)
    /\ \/ agent_result.history = << >>
       \/ agent_result.history[Len(agent_result.history)] # "success"

(* C25: success is true only if the last execution exited with return code *)
(* 0 and, when validate is enabled, its validation reported valid; once    *)
(* success is set no further fix, execution or validation happens; a run   *)
(* that exhausts its retries or has no XML paths returns success = false.  *)
C25_SuccessIsEarned ==
    /\ [](agent_result.success =>
            /\ Count("execute") >= 1
            /\ last_run.returncode = 0
            /\ validate => last_run.validation = "valid")
    /\ [][agent_result.success => agent_log' = agent_log]_vars
    /\ []((apc = "returned" /\ (xml_paths = 0 \/ RetriesExhausted)) => ~agent_result.success)

\* C25: a validated success on a later iteration, after an invalid output and a fix.
C25_Witness ==
    /\ apc = "returned"
    /\ agent_result.success
    /\ validate
    /\ agent_result.iterations >= 2
    /\ "rewrite (validation)" \in Range(agent_result.history)
-----------------------------------------------------------------------------
(* GlobalTypeCollector: the named types of every document of a directory   *)

\* The number of .xsd documents in the directory.
MaxFiles == 2

\* Paths are numbers in the order sorted() lists them: 0 is a symbolic link
\* to document 1, 1..MaxFiles are the documents, MaxFiles + 1 is a path
\* with nothing behind it.
Documents == 1 .. MaxFiles
LinkPath == 0
MissingPath == MaxFiles + 1
Locations == { LinkPath, MissingPath } \cup Documents

\* The document the file system reaches at a path that exists.
DocumentAt(path) == IF path = LinkPath THEN 1 ELSE path

\* The path as given, not resolved.
VisitKeyUnresolved(path) == path

\* os.path.realpath(xsd_path)
VisitKey(path) == DocumentAt(path)

\* os.path.exists(inc_path)
PathExists(path) == path # MissingPath

\* A document: whether etree.parse reads it, and the schemaLocation of its
\* xs:include and xs:import elements, resolved against its directory.
NoReference == { << >> }
DocumentsOnDisk ==
    { [ parses |-> FALSE, includes |-> << >>, imports |-> << >> ] } \cup
    [ parses : { TRUE },
      includes : NoReference \cup { << p >> : p \in Locations },
      imports : NoReference \cup { << p >> : p \in Documents } ]

Directories == [ Documents -> DocumentsOnDisk ]

\* The name every document gives to one of its types; each document also
\* defines a type of its own, named as the document.
SharedName == 0

\* self.complex_types[name] = ct for the named types of the document at
\* path: a later document replaces an earlier one's type of the same name.
Register(types, path) ==
    [ n \in DOMAIN types \cup { SharedName, DocumentAt(path) } |->
        IF n \in { SharedName, DocumentAt(path) } THEN path ELSE types[n] ]

\* sorted(Path(dir_path).rglob("*.xsd"))
SortedXsdFiles == [ i \in 1 .. MaxFiles + 1 |-> i - 1 ]

CollectInit ==
    /\ BuilderIdle /\ ParserIdle /\ ResolverIdle /\ AgentIdle
    /\ tree \in Directories
    /\ xsd_files = SortedXsdFiles
    /\ frames = << >>
    /\ visited_files = { }
    /\ collected_types = << >>
    /\ parse_log = << >>
    /\ cpc = "collect"

\* collect_from_file(xsd_path) up to its first call of itself, called with
\* the calls in callers in progress.
CollectFromFile(xsd_path, callers) ==
    LET real_path == VisitKey(xsd_path)
        document  == tree[DocumentAt(xsd_path)]
    IN  IF real_path \in visited_files
        THEN /\ frames' = callers
             /\ UNCHANGED <<visited_files, collected_types, parse_log>>
        ELSE /\ visited_files' = visited_files \cup { real_path }
             /\ parse_log' = Append(parse_log, DocumentAt(xsd_path))
             /\ IF ~document.parses
                THEN /\ frames' = callers
                     /\ UNCHANGED collected_types
                ELSE /\ collected_types' = Register(collected_types, xsd_path)
                     /\ frames' = << [ xsd_path |-> xsd_path,
                                       pending  |-> document.includes \o document.imports ] >>
                                  \o callers

\* collect_from_directory: the next file of the sorted listing.
NextXsdFile ==
    /\ cpc = "collect"
    /\ frames = << >>
    /\ xsd_files # << >>
    /\ xsd_files' = Tail(xsd_files)
    /\ CollectFromFile(Head(xsd_files), << >>)
    /\ UNCHANGED <<tree, cpc>>
    /\ UNCHANGED <<builder_vars, parser_vars, resolver_vars, agent_vars>>

\* The next xs:include or xs:import of the innermost call: followed when
\* something exists at its path.
FollowReference ==
    /\ frames # << >>
    /\ Head(frames).pending # << >>
    /\ LET inc_path == Head(Head(frames).pending)
           callers  == << [Head(frames) EXCEPT !.pending = Tail(@)] >> \o Tail(frames)
       IN  IF PathExists(inc_path)
           THEN CollectFromFile(inc_path, callers)
           ELSE /\ frames' = callers
                /\ UNCHANGED <<visited_files, collected_types, parse_log>>
    /\ UNCHANGED <<tree, xsd_files, cpc>>
    /\ UNCHANGED <<builder_vars, parser_vars, resolver_vars, agent_vars>>

\* The innermost call has no reference left and returns.
ReturnFromFile ==
    /\ frames # << >>
    /\ Head(frames).pending = << >>
    /\ frames' = Tail(frames)
    /\ UNCHANGED <<tree, xsd_files, visited_files, collected_types, parse_log, cpc>>
    /\ UNCHANGED <<builder_vars, parser_vars, resolver_vars, agent_vars>>

\* collect_from_directory returns.
DirectoryDone ==
    /\ cpc = "collect"
    /\ frames = << >>
    /\ xsd_files = << >>
    /\ cpc' = "done"
    /\ UNCHANGED <<tree, xsd_files, frames, visited_files, collected_types, parse_log>>
    /\ UNCHANGED <<builder_vars, parser_vars, resolver_vars, agent_vars>>

CollectNext ==
    \/ NextXsdFile
    \/ FollowReference
    \/ ReturnFromFile
    \/ DirectoryDone

CollectSpec == CollectInit /\ [][CollectNext]_vars

\* The collector is a sequential program: its next step is always taken.
CollectFairSpec == CollectSpec /\ WF_vars(CollectNext)

-----------------------------------------------------------------------------
(* The collector ends and reads every document once                        *)

\* The documents that refer to each other in a circle of two.
IncludeCycle ==
    /\ tree[1].parses /\ tree[2].parses
    /\ 2 \in Range(tree[1].includes \o tree[1].imports)
    /\ 1 \in Range(tree[2].includes \o tree[2].imports)

(* C21: collect_from_directory terminates for every graph of includes and  *)
(* imports, cyclic and self-referring ones too; it parses each document,   *)
(* by its resolved path, at most once; a document that does not parse or a *)
(* reference to a path that does not exist does not keep the types of the  *)
(* other documents from being collected.                                   *)
C21_CollectTerminates ==
    /\ <>(cpc = "done")
    /\ [](\A i, j \in DOMAIN parse_log : parse_log[i] = parse_log[j] => i = j)
    /\ [](cpc = "done" =>
            \A d \in Documents :
                /\ d \in Range(parse_log)
                /\ tree[d].parses => d \in DOMAIN collected_types)

\* C21: the collection ended on a circle of two documents, one of which
\* also refers to a missing path and the other to itself, beside the link.
C21_Witness ==
    /\ cpc = "done"
    /\ IncludeCycle
    /\ tree[1].includes = << MissingPath >>
    /\ tree[2].includes = << 2 >>
    /\ Len(parse_log) = MaxFiles

====
